---- MODULE Spec2Model ----
(***************************************************************************)
(* A model of the jobs query path of the Discord bot:                      *)
(*   - the command parser  (data_processing/job_event.py                   *)
(*     paste_jobs_command, and bot.py parse_jobs_command),                 *)
(*   - the record filter   (filter_jobs in both files),                    *)
(*   - the store read      (getJobs in both files) and the jobs handler.   *)
(*                                                                         *)
(* A Python str is a sequence of one-character strings.  An Optional[str]  *)
(* is None (the empty tuple) or Some(s) (the one-element tuple <<s>>), so  *)
(* that None and the empty string "" are different values.                 *)
(***************************************************************************)
EXTENDS Integers, Sequences, FiniteSets, TLC

VARIABLES
    command_args,    \* the argument string handed to the command parser
    ntyped,          \* number of input pieces typed so far
    pasted_params,   \* outcome of job_event.paste_jobs_command(command_args)
    parsed_params,   \* outcome of bot.parse_jobs_command(command_args)
    jobs,            \* the record list handed to filter_jobs
    filters,         \* the Filter Specification handed to filter_jobs
    filtered_jobs,   \* outcome of filter_jobs(jobs, filters)
    store,           \* the Record Store file: its status and its rows
    query_args,      \* the argument string of a query
    job_results,     \* outcome of job_event.getJobs(path, query_args)
    sent,            \* messages the bot.py jobs handler sent to the channel
    found,           \* the job list handed to format_jobs_message
    message,         \* outcome of format_jobs_message(found, filters)
    feed,            \* what feedparser.parse(url) does: raises, or returns data
    npieces,         \* number of text pieces typed into the feed's entry
    harvested,       \* outcome of data_collections/jobs.py getJobs(url)
    clock,           \* the latest reading of the UTC clock
    env,             \* the environment variables of a scheduled harvest run
    runs,            \* the outcomes of the scheduled harvest runs so far
    handled,         \* outcome of the jobs handler of bot.py
    member_join,     \* the guild a member joins, and what on_member_join did
    events_reply,    \* the event rows of the store and what print_events made
    routed,          \* the text of the language model and what route() made
    chat             \* the messages of a channel and the replies to them

parseVars  == <<command_args, ntyped, pasted_params, parsed_params>>
filterVars == <<jobs, filters, filtered_jobs>>
queryVars  == <<store, query_args, job_results, sent>>
formatVars == <<found, message>>
harvestVars == <<feed, npieces, harvested, clock>>
runVars == <<env, runs>>
botVars == <<handled, member_join, events_reply, routed, chat>>
laterVars == <<runVars, botVars>>
vars == <<command_args, ntyped, pasted_params, parsed_params,
          jobs, filters, filtered_jobs, store, query_args, job_results, sent,
          found, message, feed, npieces, harvested, clock, env, runs,
          handled, member_join, events_reply, routed, chat>>

(***************************************************************************)
(* Bounds of the model.                                                    *)
(***************************************************************************)
MaxGroups == 6
MaxTokens == 3
MaxJobs == 2
MaxRows == 2

(***************************************************************************)
(* Python values.                                                          *)
(***************************************************************************)
None == <<>>
Some(s) == <<s>>

\* The truth value Python gives an Optional[str]: None and "" are falsy.
Truthy(o) == o # None /\ o[1] # <<>>

NotRun == [status |-> "notrun"]
Returned(v) == [status |-> "returned", value |-> v]
Raised(e) == [status |-> "raised", exc |-> e]

\* str.strip(), str.split() and the regex class \s treat these as whitespace
\* (of Python's whitespace characters the model has the blank, the tab and
\* the line break).
WS == {" ", "\t", "\n"}

IsSpace(c) == c \in WS

Min(S) == CHOOSE x \in S : \A y \in S : x <= y

Max(S) == CHOOSE x \in S : \A y \in S : x >= y

\* x in s, for a character x of a str s
HasChar(s, x) == \E i \in 1..Len(s) : s[i] = x

RECURSIVE lstrip(_)
lstrip(s) ==
    IF s # <<>> /\ IsSpace(Head(s)) THEN lstrip(Tail(s)) ELSE s

RECURSIVE rstrip(_)
rstrip(s) ==
    IF s # <<>> /\ IsSpace(s[Len(s)]) THEN rstrip(SubSeq(s, 1, Len(s) - 1)) ELSE s

\* str.strip()
strip(s) == rstrip(lstrip(s))

\* str.split(): the maximal runs of non-whitespace characters, in order.
RECURSIVE split_scan(_, _, _, _)
split_scan(s, i, cur, acc) ==
    IF i > Len(s)
    THEN IF cur # <<>> THEN Append(acc, cur) ELSE acc
    ELSE IF IsSpace(s[i])
         THEN split_scan(s, i + 1, <<>>, IF cur # <<>> THEN Append(acc, cur) ELSE acc)
         ELSE split_scan(s, i + 1, Append(cur, s[i]), acc)

split(s) == split_scan(s, 1, <<>>, <<>>)

\* ' '.join(terms)
RECURSIVE join(_)
join(terms) ==
    IF terms = <<>> THEN <<>>
    ELSE IF Len(terms) = 1 THEN terms[1]
    ELSE terms[1] \o <<" ">> \o join(Tail(terms))

\* re.findall(r'\[([^\]]*)\]', s): scanning from position i, a '[' that has a
\* ']' after it matches up to the first such ']' and yields the text between
\* them; the scan resumes after that ']'.
RECURSIVE findall_scan(_, _, _)
findall_scan(s, i, acc) ==
    IF i > Len(s) THEN acc
    ELSE IF s[i] = "[" /\ (\E j \in (i + 1)..Len(s) : s[j] = "]")
         THEN LET j == Min({k \in (i + 1)..Len(s) : s[k] = "]"})
              IN  findall_scan(s, j + 1, Append(acc, SubSeq(s, i + 1, j - 1)))
         ELSE findall_scan(s, i + 1, acc)

findall_brackets(s) == findall_scan(s, 1, <<>>)

(***************************************************************************)
(* The command parser of data_processing/job_event.py.                     *)
(***************************************************************************)
param_keys == <<"role", "type", "season", "company", "location">>

SlotKeys == {"role", "type", "season", "company", "location", "general_search"}

\* pasted_params as first built: every slot None
empty_params == [k \in SlotKeys |-> None]

\* variant: either bracket character alone selects bracket notation
uses_bracket_notation_or(s) == HasChar(s, "[") \/ HasChar(s, "]")

\* '[' in command_args and ']' in command_args
uses_bracket_notation(s) == HasChar(s, "[") /\ HasChar(s, "]")

\* variant: the match is stored as found, neither tested nor stripped
bracket_value_unstripped(match) == Some(match)

\* variant: the stripped match is stored without the test for emptiness
bracket_value_unchecked(match) == Some(strip(match))

\* the value a bracket match gives its slot: set only when match.strip()
bracket_value(match) == IF strip(match) # <<>> THEN Some(strip(match)) ELSE None

\* for i, match in enumerate(matches): if i < len(param_keys): ...
RECURSIVE bracket_loop(_, _, _)
bracket_loop(matches, i, params) ==
    IF i > Len(matches) THEN params
    ELSE IF i <= Len(param_keys) /\ bracket_value(matches[i]) # None
         THEN bracket_loop(matches, i + 1,
                           [params EXCEPT ![param_keys[i]] = bracket_value(matches[i])])
         ELSE bracket_loop(matches, i + 1, params)

\* the flag a token names, "" when it names none
flag_key(token) ==
    CASE token \in {<<"-", "r">>, <<"-", "-", "r", "o", "l", "e">>} -> "role"
      [] token \in {<<"-", "t">>, <<"-", "-", "t", "y", "p", "e">>} -> "type"
      [] token \in {<<"-", "s">>, <<"-", "-", "s", "e", "a", "s", "o", "n">>} -> "season"
      [] token \in {<<"-", "c">>, <<"-", "-", "c", "o", "m", "p", "a", "n", "y">>} -> "company"
      [] token \in {<<"-", "l">>, <<"-", "-", "l", "o", "c", "a", "t", "i", "o", "n">>}
            -> "location"
      [] OTHER -> ""

\* variant: the flag branch does not test for a following token
has_next_unguarded(tokens, i) == TRUE

\* i + 1 < len(tokens), for the 1-based position i
has_next(tokens, i) == i + 1 <= Len(tokens)

\* variant: a flag that took a value moves the scan by one token only
flag_advance_one(i) == i + 1

\* how far a flag that took a value moves the scan: i += 2
flag_advance(i) == i + 2

\* the while loop over the tokens; st is [params, terms, raised]
RECURSIVE flag_loop(_, _, _)
flag_loop(tokens, i, st) ==
    IF st.raised \/ i > Len(tokens) THEN st
    ELSE LET token == tokens[i] IN
         IF token[1] = "-"
         THEN IF flag_key(token) # "" /\ has_next(tokens, i)
              THEN IF i + 1 \in 1..Len(tokens)
                   THEN flag_loop(tokens, flag_advance(i),
                            [st EXCEPT !.params[flag_key(token)] = Some(tokens[i + 1])])
                   ELSE [st EXCEPT !.raised = TRUE]   \* tokens[i + 1]: IndexError
              ELSE flag_loop(tokens, i + 1, st)
         ELSE flag_loop(tokens, i + 1, [st EXCEPT !.terms = Append(@, token)])

paste_jobs_command(s) ==
    IF strip(s) = <<>> THEN Returned(empty_params)
    ELSE IF uses_bracket_notation(s)
    THEN Returned(bracket_loop(findall_brackets(s), 1, empty_params))
    ELSE LET st == flag_loop(split(s), 1,
                             [params |-> empty_params, terms |-> <<>>, raised |-> FALSE])
         IN  IF st.raised THEN Raised("IndexError")
             ELSE IF st.terms # <<>>
                  THEN Returned([st.params EXCEPT !["general_search"] = Some(join(st.terms))])
                  ELSE Returned(st.params)

(***************************************************************************)
(* The command parser nested in the jobs handler of bot.py.                *)
(***************************************************************************)
bot_param_names == {"role", "type", "season", "company", "location"}

parse_jobs_command(s) ==
    LET params == findall_brackets(s)
    IN  Returned([name \in bot_param_names |->
            LET i == CHOOSE n \in 1..Len(param_keys) : param_keys[n] = name
            IN  IF i <= Len(params) /\ strip(params[i]) # <<>>
                THEN Some(strip(params[i]))
                ELSE None])

(***************************************************************************)
(* The record filter.  A record is a dict from field names to str; a key   *)
(* may be missing, and job.get(key, '') then reads ''.                     *)
(***************************************************************************)
UpperCase == <<"A", "B", "C", "D", "E", "F", "G", "H", "I", "J", "K", "L", "M",
               "N", "O", "P", "Q", "R", "S", "T", "U", "V", "W", "X", "Y", "Z">>

LowerCase == <<"a", "b", "c", "d", "e", "f", "g", "h", "i", "j", "k", "l", "m",
               "n", "o", "p", "q", "r", "s", "t", "u", "v", "w", "x", "y", "z">>

lower_char(c) ==
    IF \E i \in 1..Len(UpperCase) : UpperCase[i] = c
    THEN LowerCase[CHOOSE i \in 1..Len(UpperCase) : UpperCase[i] = c]
    ELSE c

\* variant: the comparison keeps the letter case
lower_unchanged(s) == s

\* str.lower()
lower(s) == [i \in 1..Len(s) |-> lower_char(s[i])]

\* needle in hay, for two str
contains(needle, hay) ==
    \E off \in 0..(Len(hay) - Len(needle)) :
        SubSeq(hay, off + 1, off + Len(needle)) = needle

\* job.get(key, '')
job_get(job, key) == IF key \in DOMAIN job THEN job[key] ELSE <<>>

\* filters.get(key)
filters_get(fs, key) == IF key \in DOMAIN fs THEN fs[key] ELSE None

\* the fields each filter of job_event.filter_jobs looks into
searchable_fields ==
    {"Title", "Description", "Type", "Company", "Location", "whenDate", "pubDate"}

role_fields == {"Title", "Description", "Type", "Company", "Location"}

type_fields == {"Title", "Description", "Type"}

season_fields == {"Title", "Description", "whenDate", "pubDate"}

company_fields == {"Company", "Title", "Description"}

location_fields == {"Location"}

\* the fields the role filter of bot.py filter_jobs looks into
bot_role_fields == {"Title", "Description"}

\* variant: a filter block runs whether or not its slot is present
slot_applies_always(fs, key) == TRUE

\* if filters.get(key) [and include_job]: the filter reads a truthy slot only
slot_applies(fs, key) == Truthy(filters_get(fs, key))

\* One filter block.  prev is "include", "exclude" or "raise"; the block is
\* skipped unless the slot is truthy and the job is still included, and
\* calling .lower() on a slot that is None raises AttributeError.
filter_block(prev, fs, key, job, fields) ==
    IF prev # "include" \/ ~slot_applies(fs, key) THEN prev
    ELSE IF filters_get(fs, key) = None THEN "raise"
    ELSE IF \E f \in fields :
                contains(lower(filters_get(fs, key)[1]), lower(job_get(job, f)))
         THEN "include"
         ELSE "exclude"

\* the body of the for loop of job_event.filter_jobs, for one job
include_job(job, fs) ==
    LET general  == filter_block("include", fs, "general_search", job, searchable_fields)
        role     == filter_block(general, fs, "role", job, role_fields)
        type     == filter_block(role, fs, "type", job, type_fields)
        season   == filter_block(type, fs, "season", job, season_fields)
        company  == filter_block(season, fs, "company", job, company_fields)
    IN  filter_block(company, fs, "location", job, location_fields)

\* the body of the for loop of bot.py filter_jobs, for one job
bot_include_job(job, fs) ==
    LET role     == filter_block("include", fs, "role", job, bot_role_fields)
        type     == filter_block(role, fs, "type", job, type_fields)
        season   == filter_block(type, fs, "season", job, season_fields)
        company  == filter_block(season, fs, "company", job, company_fields)
    IN  filter_block(company, fs, "location", job, location_fields)

\* for job in jobs: ... if include_job: filtered_jobs.append(job)
RECURSIVE filter_loop(_, _, _, _)
filter_loop(js, i, fs, acc) ==
    IF i > Len(js) THEN Returned(acc)
    ELSE LET r == include_job(js[i], fs)
         IN  IF r = "raise" THEN Raised("AttributeError")
             ELSE filter_loop(js, i + 1, fs, IF r = "include" THEN Append(acc, js[i]) ELSE acc)

filter_jobs(js, fs) == filter_loop(js, 1, fs, <<>>)

RECURSIVE bot_filter_loop(_, _, _, _)
bot_filter_loop(js, i, fs, acc) ==
    IF i > Len(js) THEN Returned(acc)
    ELSE LET r == bot_include_job(js[i], fs)
         IN  IF r = "raise" THEN Raised("AttributeError")
             ELSE bot_filter_loop(js, i + 1, fs,
                                  IF r = "include" THEN Append(acc, js[i]) ELSE acc)

bot_filter_jobs(js, fs) == bot_filter_loop(js, 1, fs, <<>>)

(***************************************************************************)
(* Inputs of the parser: an argument string is typed piece by piece.       *)
(***************************************************************************)
\* pieces for bracket notation: two groups with text, a blank group, and an
\* opening and a closing bracket on their own
BracketPieces ==
    { <<"[", "a", " ", "]">>, <<"[", " ", "]">>, <<"[", "B">>, <<"]", " ">> }

\* pieces for flag notation, each led by a blank: every short and long flag,
\* an unrecognised flag, two search terms, bracket text and bare whitespace
TokenPieces ==
    { <<" ", "-", "r">>, <<" ", "-", "t">>, <<" ", "-", "s">>,
      <<" ", "-", "c">>, <<" ", "-", "l">>,
      <<" ", "-", "-", "r", "o", "l", "e">>,
      <<" ", "-", "-", "t", "y", "p", "e">>,
      <<" ", "-", "-", "s", "e", "a", "s", "o", "n">>,
      <<" ", "-", "-", "c", "o", "m", "p", "a", "n", "y">>,
      <<" ", "-", "-", "l", "o", "c", "a", "t", "i", "o", "n">>,
      <<" ", "-", "x">>, <<" ", "a">>, <<" ", "B">>,
      <<" ", "[", "a", "]">>, <<" ", "[", " ", "]">>, <<" ", "[">>,
      <<"\t", " ">> }

\* the query arguments the store specification draws from
QueryArgPool ==
    { <<>>, <<"-", "t", " ", "G", "o">>, <<"[", "]", "[", "g", "o", "]">> }

(***************************************************************************)
(* The initial state: nothing typed, nothing run, an empty readable store. *)
(***************************************************************************)
Init ==
    /\ command_args = <<>>
    /\ ntyped = 0
    /\ pasted_params = NotRun
    /\ parsed_params = NotRun
    /\ jobs = <<>>
    /\ filters = empty_params
    /\ filtered_jobs = NotRun
    /\ store = [status |-> "ok", rows |-> <<>>]
    /\ query_args = <<>>
    /\ job_results = NotRun
    /\ sent = <<>>
    /\ found = <<>>
    /\ message = NotRun
    /\ feed = [raises |-> None, bozo |-> FALSE, bozo_exception |-> <<>>,
               entries |-> <<>>]
    /\ npieces = 0
    /\ harvested = NotRun
    /\ clock = 0
    /\ env = [TASK_TYPE |-> None, EVENTS_RSS_URL |-> None,
              INTERNSHIPS_MARKDOWN_URL |-> None]
    /\ runs = <<>>
    /\ handled = NotRun
    /\ member_join = [text_channels |-> <<>>, system_channel |-> None,
                      outcome |-> NotRun]
    /\ events_reply = [rows |-> <<>>, steps |-> 0, message |-> <<>>,
                       outcome |-> NotRun]
    /\ routed = [out |-> <<>>, pieces |-> 0, outcome |-> NotRun]
    /\ chat = [inbox |-> <<>>, written |-> 0, users |-> 0, replies |-> 0,
               last |-> NotRun]

TypePiece(p, max) ==
    /\ pasted_params = NotRun
    /\ parsed_params = NotRun
    /\ ntyped < max
    /\ command_args' = command_args \o p
    /\ ntyped' = ntyped + 1
    /\ UNCHANGED <<pasted_params, parsed_params, filterVars, queryVars,
                 formatVars, harvestVars, laterVars>>

TypeGroup == \E p \in BracketPieces : TypePiece(p, MaxGroups)

TypeToken == \E p \in TokenPieces : TypePiece(p, MaxTokens)

\* job_event.paste_jobs_command(command_args)
PasteJobsCommand ==
    /\ pasted_params = NotRun
    /\ parsed_params = NotRun
    /\ pasted_params' = paste_jobs_command(command_args)
    /\ UNCHANGED <<command_args, ntyped, parsed_params, filterVars, queryVars,
                 formatVars, harvestVars, laterVars>>

\* bot.parse_jobs_command(command_args)
ParseJobsCommand ==
    /\ pasted_params = NotRun
    /\ parsed_params = NotRun
    /\ parsed_params' = parse_jobs_command(command_args)
    /\ UNCHANGED <<command_args, ntyped, pasted_params, filterVars, queryVars,
                 formatVars, harvestVars, laterVars>>

Next == TypeToken \/ PasteJobsCommand \/ ParseJobsCommand

Spec == Init /\ [][Next]_vars

NextBracket == TypeGroup \/ PasteJobsCommand

SpecBracket == Init /\ [][NextBracket]_vars

(***************************************************************************)
(* What the claims about the parser say, stated without the parser.        *)
(***************************************************************************)
\* c is a ']' that closes a bracketed group of s: some '[' lies between the
\* previous ']' (or the start of s) and c
ClosesGroup(s, c) ==
    /\ s[c] = "]"
    /\ \E i \in 1..(c - 1) : s[i] = "[" /\ \A m \in (i + 1)..(c - 1) : s[m] # "]"

GroupEnds(s) == {c \in 1..Len(s) : ClosesGroup(s, c)}

\* the text of the group that c closes: from the first '[' after the
\* previous ']' up to c, both excluded
GroupText(s, c) ==
    LET open == Min({i \in 1..(c - 1) :
                        s[i] = "[" /\ \A m \in (i + 1)..(c - 1) : s[m] # "]"})
    IN  SubSeq(s, open + 1, c - 1)

NumGroups(s) == Cardinality(GroupEnds(s))

\* the text of the k-th bracketed group of s, for k in 1..NumGroups(s)
KthGroup(s, k) ==
    GroupText(s, CHOOSE c \in GroupEnds(s) :
                     Cardinality({d \in GroupEnds(s) : d <= c}) = k)

IsBlank(s) == \A i \in 1..Len(s) : IsSpace(s[i])

\* t is s without its leading and trailing whitespace
IsTrimOf(t, s) ==
    \E a \in 1..Len(s) : \E b \in a..Len(s) :
        /\ t = SubSeq(s, a, b)
        /\ ~IsSpace(s[a]) /\ ~IsSpace(s[b])
        /\ \A m \in 1..Len(s) : (m < a \/ m > b) => IsSpace(s[m])

\* the slot is absent or a non-empty string
AbsentOrNonEmpty(o) == o = None \/ (Len(o) = 1 /\ o[1] # <<>>)

RecognizedFlags ==
    [ role     |-> {<<"-", "r">>, <<"-", "-", "r", "o", "l", "e">>},
      type     |-> {<<"-", "t">>, <<"-", "-", "t", "y", "p", "e">>},
      season   |-> {<<"-", "s">>, <<"-", "-", "s", "e", "a", "s", "o", "n">>},
      company  |-> {<<"-", "c">>, <<"-", "-", "c", "o", "m", "p", "a", "n", "y">>},
      location |-> {<<"-", "l">>, <<"-", "-", "l", "o", "c", "a", "t", "i", "o", "n">>} ]

IsRecognized(tok) == \E k \in DOMAIN RecognizedFlags : tok \in RecognizedFlags[k]

\* the positions of the tokens consumed as the value of the flag before them
\* (a token is read as a flag only when it is not itself such a value)
ValuePositions(toks) ==
    LET isval[i \in 0..Len(toks)] ==
            IF i <= 1 THEN FALSE ELSE IsRecognized(toks[i - 1]) /\ ~isval[i - 1]
    IN  {i \in 1..Len(toks) : isval[i]}

\* the positions where flag k is read and has a following token
FlagPositions(toks, k) ==
    {i \in 1..(Len(toks) - 1) : i \notin ValuePositions(toks) /\ toks[i] \in RecognizedFlags[k]}

\* the tokens that are neither flags nor consumed as a flag value, in order
RECURSIVE SearchTerms(_, _)
SearchTerms(toks, i) ==
    IF i > Len(toks) THEN <<>>
    ELSE IF i \notin ValuePositions(toks) /\ toks[i][1] # "-"
         THEN <<toks[i]>> \o SearchTerms(toks, i + 1)
         ELSE SearchTerms(toks, i + 1)

RECURSIVE SumLen(_, _)
SumLen(terms, k) == IF k = 0 THEN 0 ELSE Len(terms[k]) + SumLen(terms, k - 1)

\* g is the terms in order with exactly one blank between neighbours
JoinedBySingleSpaces(g, terms) ==
    /\ Len(g) = SumLen(terms, Len(terms)) + Len(terms) - 1
    /\ \A k \in 1..Len(terms) :
          LET off == SumLen(terms, k - 1) + (k - 1)
          IN  /\ SubSeq(g, off + 1, off + Len(terms[k])) = terms[k]
              /\ k < Len(terms) => g[off + Len(terms[k]) + 1] = " "

\* v is the Filter Specification flag notation gives the tokens toks
IsFlagResult(v, toks) ==
    /\ \A k \in DOMAIN RecognizedFlags :
          v[k] = IF FlagPositions(toks, k) = {} THEN None
                 ELSE Some(toks[Max(FlagPositions(toks, k)) + 1])
    /\ IF SearchTerms(toks, 1) = <<>> THEN v["general_search"] = None
       ELSE /\ v["general_search"] # None
            /\ JoinedBySingleSpaces(v["general_search"][1], SearchTerms(toks, 1))

BracketInput(s) == (\E i \in 1..Len(s) : s[i] = "[") /\ (\E i \in 1..Len(s) : s[i] = "]")

Pasted == pasted_params.status = "returned"

\* toks without its i-th token
Without(toks, i) == SubSeq(toks, 1, i - 1) \o SubSeq(toks, i + 1, Len(toks))

(***************************************************************************)
(* C1.  In bracket notation slot i (role, type, season, company, location) *)
(* is the whitespace-trimmed text of the i-th bracketed group when that    *)
(* group exists and is not blank, and is absent otherwise; groups after    *)
(* the fifth change no slot.                                               *)
(***************************************************************************)
C1_BracketGroupsPositional ==
    (Pasted /\ BracketInput(command_args)) =>
        \A i \in 1..5 :
            LET slot == pasted_params.value[
                            <<"role", "type", "season", "company", "location">>[i]]
            IN  IF i <= NumGroups(command_args) /\ ~IsBlank(KthGroup(command_args, i))
                THEN slot # None /\ IsTrimOf(slot[1], KthGroup(command_args, i))
                ELSE slot = None

\* six groups typed, the sixth with text, some slot set and some slot absent
C1_Witness ==
    /\ Pasted /\ BracketInput(command_args)
    /\ NumGroups(command_args) >= 6
    /\ ~IsBlank(KthGroup(command_args, 6))
    /\ pasted_params.value["role"] = None
    /\ pasted_params.value["location"] # None

(***************************************************************************)
(* C2.  The notation is chosen by the presence of '[' and ']' alone: with  *)
(* both in the string (anywhere, in any order) general_search is absent    *)
(* and every slot that is set holds the trimmed text of a bracketed group, *)
(* whatever flags or free text stand outside the brackets; otherwise the   *)
(* result is the one flag notation gives.                                  *)
(***************************************************************************)
C2_NotationByBrackets ==
    Pasted =>
        IF BracketInput(command_args)
        THEN /\ pasted_params.value["general_search"] = None
             /\ \A k \in DOMAIN RecognizedFlags :
                   pasted_params.value[k] # None =>
                       \E c \in GroupEnds(command_args) :
                           IsTrimOf(pasted_params.value[k][1], GroupText(command_args, c))
        ELSE IsFlagResult(pasted_params.value, split(command_args))

\* a flag with a value and a search term typed beside a bracketed group
C2_Witness ==
    /\ Pasted /\ BracketInput(command_args)
    /\ \E i \in 1..(Len(split(command_args)) - 1) :
          IsRecognized(split(command_args)[i]) /\ split(command_args)[i + 1][1] # "["
    /\ pasted_params.value["role"] # None

(***************************************************************************)
(* C3.  In flag notation every recognised flag that is read with a token   *)
(* after it sets its slot to exactly that token and consumes both, and     *)
(* general_search is the tokens that are neither flags nor consumed as a   *)
(* flag value, in their order, joined by single blanks (absent when there  *)
(* are none).                                                              *)
(***************************************************************************)
C3_FlagNotation ==
    (Pasted /\ ~BracketInput(command_args)) =>
        IsFlagResult(pasted_params.value, split(command_args))

\* a flag, its value and a search term on either side
C3_Witness ==
    /\ Pasted /\ ~BracketInput(command_args)
    /\ Len(split(command_args)) = 3
    /\ pasted_params.value["company"] # None
    /\ pasted_params.value["general_search"] # None

(***************************************************************************)
(* C4, as claimed.  The parser never raises; a recognised flag read as the *)
(* last token is discarded and its slot is absent; an unrecognised token   *)
(* starting with '-' is discarded without consuming the token after it.    *)
(***************************************************************************)
C4_TrailingFlagLeavesSlotAbsent ==
    /\ pasted_params.status # "raised"
    /\ (Pasted /\ ~BracketInput(command_args)) =>
          LET toks == split(command_args)
              n == Len(toks)
          IN  /\ \A k \in DOMAIN RecognizedFlags :
                    (n > 0 /\ n \notin ValuePositions(toks) /\ toks[n] \in RecognizedFlags[k])
                        => pasted_params.value[k] = None
              /\ \A i \in 1..n :
                    (i \notin ValuePositions(toks) /\ toks[i][1] = "-" /\ ~IsRecognized(toks[i]))
                        => IsFlagResult(pasted_params.value, Without(toks, i))

(***************************************************************************)
(* C4, amended.  The parser never raises; a recognised flag read as the    *)
(* last token is discarded and does not set its slot: the result is the    *)
(* one the tokens before it give; an unrecognised token starting with '-'  *)
(* is discarded without consuming the token after it: the result is the    *)
(* one the other tokens give.                                              *)
(***************************************************************************)
C4_TrailingFlagDiscarded ==
    /\ pasted_params.status # "raised"
    /\ (Pasted /\ ~BracketInput(command_args)) =>
          LET toks == split(command_args)
              n == Len(toks)
          IN  /\ (n > 0 /\ n \notin ValuePositions(toks) /\ IsRecognized(toks[n]))
                    => IsFlagResult(pasted_params.value, Without(toks, n))
              /\ \A i \in 1..n :
                    (i \notin ValuePositions(toks) /\ toks[i][1] = "-" /\ ~IsRecognized(toks[i]))
                        => IsFlagResult(pasted_params.value, Without(toks, i))

\* an unrecognised flag, a search term, and a recognised flag as last token
C4_Witness ==
    /\ Pasted /\ ~BracketInput(command_args)
    /\ LET toks == split(command_args)
       IN  /\ Len(toks) = 3
           /\ toks[1][1] = "-" /\ ~IsRecognized(toks[1])
           /\ toks[2][1] # "-"
           /\ IsRecognized(toks[3])
    /\ pasted_params.value["general_search"] # None

(***************************************************************************)
(* C5.  In both notations and in both parsers every slot of the returned   *)
(* Filter Specification is absent or a non-empty string, and an empty or   *)
(* all-whitespace argument string gives every slot absent.                 *)
(***************************************************************************)
C5_SlotsAbsentOrNonEmpty ==
    /\ Pasted =>
          /\ \A k \in DOMAIN pasted_params.value : AbsentOrNonEmpty(pasted_params.value[k])
          /\ IsBlank(command_args) =>
                \A k \in DOMAIN pasted_params.value : pasted_params.value[k] = None
    /\ parsed_params.status = "returned" =>
          /\ \A k \in DOMAIN parsed_params.value : AbsentOrNonEmpty(parsed_params.value[k])
          /\ IsBlank(command_args) =>
                \A k \in DOMAIN parsed_params.value : parsed_params.value[k] = None

\* a blank bracketed group parsed in bracket notation beside a set slot
C5_Witness ==
    /\ Pasted /\ BracketInput(command_args)
    /\ \E k \in 1..NumGroups(command_args) : IsBlank(KthGroup(command_args, k))
    /\ \E k \in DOMAIN pasted_params.value : pasted_params.value[k] # None

(***************************************************************************)
(* Inputs of the filter: a record list and a Filter Specification.         *)
(***************************************************************************)
\* Eight records.  Seven hold the text "go" (in some letter case) in exactly
\* one field each; the last holds it nowhere and lacks most keys.
JobPool ==
    { [Type |-> <<"J", "o", "b">>, Title |-> <<"a", " ", "g", "O">>,
       Description |-> <<"z">>, Company |-> <<"z">>, Location |-> <<"z">>,
       whenDate |-> <<>>, pubDate |-> <<>>],
      [Type |-> <<"J", "o", "b">>, Title |-> <<"a">>,
       Description |-> <<"G", "o", "z">>, Company |-> <<"z">>, Location |-> <<"z">>,
       whenDate |-> <<>>, pubDate |-> <<>>],
      [Type |-> <<"G", "O">>, Title |-> <<"a">>,
       Description |-> <<"z">>, Company |-> <<"z">>, Location |-> <<"z">>,
       whenDate |-> <<>>, pubDate |-> <<>>],
      [Type |-> <<"J", "o", "b">>, Title |-> <<"a">>,
       Description |-> <<"z">>, Company |-> <<"z", "g", "o">>, Location |-> <<"z">>,
       whenDate |-> <<>>, pubDate |-> <<>>],
      [Type |-> <<"J", "o", "b">>, Title |-> <<"a">>,
       Description |-> <<"z">>, Company |-> <<"z">>, Location |-> <<"G", "o">>,
       whenDate |-> <<>>, pubDate |-> <<>>],
      [Type |-> <<"J", "o", "b">>, Title |-> <<"a">>,
       Description |-> <<"z">>, Company |-> <<"z">>, Location |-> <<"z">>,
       whenDate |-> <<"g", "o">>, pubDate |-> <<>>],
      [Type |-> <<"J", "o", "b">>, Title |-> <<"a">>,
       Description |-> <<"z">>, Company |-> <<"z">>, Location |-> <<"z">>,
       whenDate |-> <<>>, pubDate |-> <<"g", "O">>],
      [Type |-> <<"J", "o", "b">>, Title |-> <<"g", " ", "o">>] }

\* the texts a slot may hold: a word, and for general_search also a phrase
SlotTexts(k) ==
    IF k = "general_search"
    THEN {<<"G", "o">>, <<"A", " ", "g", "o">>}
    ELSE {<<"G", "o">>}

AddJob ==
    /\ filtered_jobs = NotRun
    /\ Len(jobs) < MaxJobs
    /\ \E j \in JobPool : jobs' = Append(jobs, j)
    /\ UNCHANGED <<filters, filtered_jobs, parseVars, queryVars,
                 formatVars, harvestVars, laterVars>>

SetSlot ==
    /\ filtered_jobs = NotRun
    /\ \E k \in SlotKeys :
          /\ filters[k] = None
          /\ \E x \in SlotTexts(k) : filters' = [filters EXCEPT ![k] = Some(x)]
    /\ UNCHANGED <<jobs, filtered_jobs, parseVars, queryVars,
                 formatVars, harvestVars, laterVars>>

\* job_event.filter_jobs(jobs, filters)
FilterJobs ==
    /\ filtered_jobs = NotRun
    /\ filtered_jobs' = [by |-> "job_event", out |-> filter_jobs(jobs, filters)]
    /\ UNCHANGED <<jobs, filters, parseVars, queryVars,
                 formatVars, harvestVars, laterVars>>

\* bot.py filter_jobs(jobs, filters), on the five slots its parser returns
BotFilterJobs ==
    /\ filtered_jobs = NotRun
    /\ filters["general_search"] = None
    /\ filtered_jobs' =
          [by |-> "bot",
           out |-> bot_filter_jobs(jobs, [k \in bot_param_names |-> filters[k]])]
    /\ UNCHANGED <<jobs, filters, parseVars, queryVars,
                 formatVars, harvestVars, laterVars>>

NextFilter == AddJob \/ SetSlot \/ FilterJobs \/ BotFilterJobs

SpecFilter == Init /\ [][NextFilter]_vars

(***************************************************************************)
(* What the claims about the filter say, stated without the filter.        *)
(***************************************************************************)
\* the same character, or the two cases of one letter
SameLetter(x, y) ==
    \/ x = y
    \/ \E i \in 1..Len(UpperCase) :
          {x, y} = {UpperCase[i], LowerCase[i]}

\* a occurs in b as a substring when letter case is ignored
OccursIgnoringCase(a, b) ==
    \E off \in 0..(Len(b) - Len(a)) :
        \A i \in 1..Len(a) : SameLetter(a[i], b[off + i])

FieldOf(job, f) == IF f \in DOMAIN job THEN job[f] ELSE <<>>

\* the fields each slot is matched against, role excepted
SlotFields ==
    [ type           |-> {"Title", "Description", "Type"},
      season         |-> {"Title", "Description", "whenDate", "pubDate"},
      company        |-> {"Company", "Title", "Description"},
      location       |-> {"Location"},
      general_search |-> {"Title", "Description", "Type", "Company", "Location",
                          "whenDate", "pubDate"} ]

\* every present slot of fs, role excepted, matches the record
MatchesListedSlots(job, fs) ==
    \A k \in DOMAIN SlotFields :
        fs[k] # None =>
            \E f \in SlotFields[k] : OccursIgnoringCase(fs[k][1], FieldOf(job, f))

\* the records of js that match, in their order
RECURSIVE Matching(_, _)
Matching(js, fs) ==
    IF js = <<>> THEN <<>>
    ELSE IF MatchesListedSlots(Head(js), fs)
         THEN <<Head(js)>> \o Matching(Tail(js), fs)
         ELSE Matching(Tail(js), fs)

\* a is b with some of its elements left out
RECURSIVE IsSubsequence(_, _)
IsSubsequence(a, b) ==
    IF a = <<>> THEN TRUE
    ELSE IF b = <<>> THEN FALSE
    ELSE IF Head(a) = Head(b) THEN IsSubsequence(Tail(a), Tail(b))
    ELSE IsSubsequence(a, Tail(b))

Filtered == filtered_jobs # NotRun

FilteredOk == Filtered /\ filtered_jobs.out.status = "returned"

(***************************************************************************)
(* C6.  filter returns exactly the records, in their original order, for   *)
(* which every present slot matches by case-insensitive substring: type in *)
(* Title, Description or Type; season in Title, Description, whenDate or   *)
(* pubDate; company in Company, Title or Description; location in          *)
(* Location; general_search, as one phrase, in any of the seven fields.    *)
(* Present slots are AND-ed (a present role only narrows that result) and  *)
(* absent slots impose no constraint.                                      *)
(***************************************************************************)
C6_FilterMatchesPresentSlots ==
    Filtered =>
        /\ filtered_jobs.out.status = "returned"
        /\ IF filters["role"] = None
           THEN filtered_jobs.out.value = Matching(jobs, filters)
           ELSE IsSubsequence(filtered_jobs.out.value, Matching(jobs, filters))

\* three slots present, two records given, the second kept and the first not
C6_Witness ==
    /\ FilteredOk /\ filtered_jobs.by = "job_event"
    /\ filters["role"] = None
    /\ filters["general_search"] # None /\ filters["company"] # None
    /\ filters["season"] # None
    /\ Len(jobs) = 2
    /\ filtered_jobs.out.value = <<jobs[2]>>

(***************************************************************************)
(* C7.  A present role matches a record only through its title or its      *)
(* description: every record filter returns holds the role text, letter    *)
(* case ignored, in its Title or its Description.                          *)
(***************************************************************************)
C7_RoleMatchesTitleOrDescriptionOnly ==
    (FilteredOk /\ filters["role"] # None) =>
        \A i \in 1..Len(filtered_jobs.out.value) :
            \/ OccursIgnoringCase(filters["role"][1],
                                  FieldOf(filtered_jobs.out.value[i], "Title"))
            \/ OccursIgnoringCase(filters["role"][1],
                                  FieldOf(filtered_jobs.out.value[i], "Description"))

(***************************************************************************)
(* C8.  With every slot of the Filter Specification absent, filter returns *)
(* a list equal to the input records: same elements, same order, same      *)
(* length.                                                                 *)
(***************************************************************************)
C8_AllAbsentIsIdentity ==
    (Filtered /\ \A k \in SlotKeys : filters[k] = None) =>
        /\ filtered_jobs.out.status = "returned"
        /\ filtered_jobs.out.value = jobs

\* two different records filtered with no slot present
C8_Witness ==
    /\ FilteredOk
    /\ \A k \in SlotKeys : filters[k] = None
    /\ Len(jobs) = 2 /\ jobs[1] # jobs[2]

(***************************************************************************)
(* The store read.  The Record Store file is missing, unreadable, or holds *)
(* rows; a row is a dict from column names to str.                         *)
(***************************************************************************)
\* csv_updater.extract_entries_from_csv(path): the rows of the file, and a
\* hard failure when the file is missing or unreadable
extract_entries_from_csv(st) ==
    IF st.status = "ok" THEN Returned(st.rows)
    ELSE Raised(IF st.status = "missing" THEN "FileNotFoundError" ELSE "OSError")

\* variant: only a record equal in every column is a duplicate
RECURSIVE remove_duplicates_exact(_)
remove_duplicates_exact(rs) ==
    IF rs = <<>> THEN <<>>
    ELSE LET rest == remove_duplicates_exact(SubSeq(rs, 1, Len(rs) - 1))
             last == rs[Len(rs)]
         IN  IF \E i \in 1..Len(rest) : rest[i] = last
             THEN rest
             ELSE Append(rest, last)

\* csv_updater.remove_duplicates(records): the first record of every
\* identifying tuple (title, company, link), order kept
RECURSIVE remove_duplicates(_)
remove_duplicates(rs) ==
    IF rs = <<>> THEN <<>>
    ELSE LET rest == remove_duplicates(SubSeq(rs, 1, Len(rs) - 1))
             last == rs[Len(rs)]
         IN  IF \E i \in 1..Len(rest) :
                    /\ rest[i].Title = last.Title
                    /\ rest[i].Company = last.Company
                    /\ rest[i].link = last.link
             THEN rest
             ELSE Append(rest, last)

allowed_types ==
    { <<"j", "o", "b">>,
      <<"i", "n", "t", "e", "r", "n", "s", "h", "i", "p">>,
      <<"f", "u", "l", "l", "-", "t", "i", "m", "e">>,
      <<"p", "a", "r", "t", "-", "t", "i", "m", "e">>,
      <<"c", "o", "-", "o", "p">>,
      <<"c", "o", "o", "p">> }

\* variant: no record is dropped for its Type
type_allowed_any(job) == TRUE

\* job.get("Type", "").lower() in allowed_types
type_allowed(job) == lower(job_get(job, "Type")) \in allowed_types

\* jobs = [job for job in jobs if ...]
RECURSIVE keep_allowed(_)
keep_allowed(rs) ==
    IF rs = <<>> THEN <<>>
    ELSE IF type_allowed(Head(rs)) THEN <<Head(rs)>> \o keep_allowed(Tail(rs))
    ELSE keep_allowed(Tail(rs))

\* job_event.getJobs(csv_file_path, command_args): any exception raised in
\* the try block is caught, printed, and [] is returned.  The outcome holds
\* the returned list and whether an exception was caught.
getJobs(st, args) ==
    LET caught == [status |-> "returned", value |-> <<>>, caught |-> TRUE]
        extracted == extract_entries_from_csv(st)
    IN  IF extracted.status = "raised" THEN caught
        ELSE LET js == keep_allowed(remove_duplicates(extracted.value))
             IN  IF strip(args) = <<>>
                 THEN [status |-> "returned", value |-> js, caught |-> FALSE]
                 ELSE LET fs == paste_jobs_command(args)
                      IN  IF fs.status = "raised" THEN caught
                          ELSE LET out == filter_jobs(js, fs.value)
                               IN  IF out.status = "raised" THEN caught
                                   ELSE [status |-> "returned", value |-> out.value,
                                         caught |-> FALSE]

\* the job dict the getJobs nested in bot.py builds from one row
bot_job(row) ==
    [ Type        |-> IF "Type" \in DOMAIN row THEN row.Type ELSE <<"J", "o", "b">>,
      Title       |-> job_get(row, "Title"),
      Description |-> job_get(row, "Description"),
      Company     |-> IF "Company" \in DOMAIN row THEN row.Company
                      ELSE job_get(row, "Title"),
      Location    |-> job_get(row, "Location"),
      whenDate    |-> job_get(row, "whenDate"),
      pubDate     |-> job_get(row, "pubDate"),
      link        |-> job_get(row, "link") ]

\* the rows with a Title or a Description, as job dicts
RECURSIVE bot_rows(_)
bot_rows(rs) ==
    IF rs = <<>> THEN <<>>
    ELSE LET job == bot_job(Head(rs))
         IN  IF job.Title # <<>> \/ job.Description # <<>>
             THEN <<job>> \o bot_rows(Tail(rs))
             ELSE bot_rows(Tail(rs))

\* the getJobs nested in bot.py: a file that cannot be opened or read gives
\* []; a failure while parsing or filtering leaves the list unfiltered
bot_getJobs(st, args) ==
    IF st.status # "ok" THEN <<>>
    ELSE LET js == bot_rows(st.rows)
         IN  IF strip(args) = <<>> THEN js
             ELSE LET out == bot_filter_jobs(js, parse_jobs_command(args).value)
                  IN  IF out.status = "raised" THEN js ELSE out.value

\* format_jobs_message shows the first ten jobs
display_limit == 10

\* the message format_jobs_message(jobs, filters) of bot.py builds: the fixed
\* no-results text, or a header with the count and the active filters, one
\* block per displayed job, and the number of jobs left out
format_jobs_message(js, fs) ==
    IF js = <<>> THEN [kind |-> "no_results"]
    ELSE [ kind    |-> "results",
           total   |-> Len(js),
           filters |-> {k \in DOMAIN fs : Truthy(fs[k])},
           blocks  |-> SubSeq(js, 1, IF Len(js) < display_limit THEN Len(js)
                                     ELSE display_limit),
           more    |-> IF Len(js) > display_limit THEN Len(js) - display_limit ELSE 0 ]

\* the message the jobs handler of bot.py sends for args
jobs_message(st, args) ==
    LET job_res == bot_getJobs(st, args)
        fs == IF strip(args) # <<>> THEN parse_jobs_command(args).value
              ELSE [k \in {} |-> None]
    IN  format_jobs_message(job_res, fs)

(***************************************************************************)
(* Inputs of a query: the store and the argument string.                   *)
(***************************************************************************)
Internship == <<"I", "n", "t", "e", "r", "n", "s", "h", "i", "p">>

Row(type, title, desc, link) ==
    [ Type |-> type, Title |-> title, Description |-> desc, Company |-> <<"z">>,
      Location |-> <<"z">>, whenDate |-> <<>>, pubDate |-> <<>>, link |-> link ]

\* Rows of allowed types (in several letter cases), of type Event, of a
\* type that only contains an allowed one, and a row with no text at all
RowPool ==
    { Row(Internship, <<"G", "o">>, <<"z">>, <<"u">>),
      Row(<<"J", "O", "B">>, <<"a">>, <<"g", "o">>, <<"u">>),
      Row(<<"E", "v", "e", "n", "t">>, <<"G", "o">>, <<"z">>, <<"v">>),
      Row(<<"c", "o", "-", "o", "p">>, <<"a">>, <<>>, <<"v">>),
      Row(<<"J", "o", "b", "s">>, <<"g", "o">>, <<"z">>, <<"w">>),
      Row(<<>>, <<>>, <<>>, <<>>) }

QueryIdle == job_results = NotRun /\ sent = <<>> /\ handled = NotRun

\* a harvest run appended a row to the store
StoreRow ==
    /\ QueryIdle
    /\ store.status = "ok"
    /\ Len(store.rows) < MaxRows
    /\ \E r \in RowPool : store' = [store EXCEPT !.rows = Append(@, r)]
    /\ UNCHANGED <<query_args, job_results, sent, parseVars, filterVars,
                 formatVars, harvestVars, laterVars>>

\* the store file is deleted or made unreadable
StoreLost ==
    /\ QueryIdle
    /\ store.status = "ok"
    /\ \E s \in {"missing", "unreadable"} : store' = [status |-> s, rows |-> <<>>]
    /\ UNCHANGED <<query_args, job_results, sent, parseVars, filterVars,
                 formatVars, harvestVars, laterVars>>

\* the user gives the command its arguments
ChooseArgs ==
    /\ QueryIdle
    /\ query_args = <<>>
    /\ \E a \in QueryArgPool \ {<<>>} : query_args' = a
    /\ UNCHANGED <<store, job_results, sent, parseVars, filterVars,
                 formatVars, harvestVars, laterVars>>

\* job_event.getJobs(csv_file_path, query_args)
GetJobs ==
    /\ job_results = NotRun
    /\ job_results' = getJobs(store, query_args)
    /\ UNCHANGED <<store, query_args, sent, parseVars, filterVars,
                 formatVars, harvestVars, laterVars>>

\* the jobs handler of bot.py: await ctx.send(message)
JobsCommand ==
    /\ sent = <<>>
    /\ sent' = Append(sent, jobs_message(store, query_args))
    /\ UNCHANGED <<store, query_args, job_results, parseVars, filterVars,
                 formatVars, harvestVars, laterVars>>

NextQuery == StoreRow \/ StoreLost \/ ChooseArgs \/ GetJobs \/ JobsCommand

SpecQuery == Init /\ [][NextQuery]_vars

(***************************************************************************)
(* C9.  When the Record Store file is missing or unreadable the read of    *)
(* the query path reports a failure to its caller: getJobs does not return *)
(* a list, and the handler does not send the no-results message.           *)
(***************************************************************************)
C9_StoreFailureReported ==
    store.status # "ok" =>
        /\ job_results # NotRun => job_results.status = "raised"
        /\ sent # <<>> => sent[1].kind # "no_results"

(***************************************************************************)
(* C10.  job_event.getJobs returns only records whose Type, compared       *)
(* case-insensitively, is one of job, internship, full-time, part-time,    *)
(* co-op, coop; a record of Type Event is never returned, whatever the     *)
(* arguments.                                                              *)
(***************************************************************************)
AllowedTypeNames ==
    { <<"j", "o", "b">>,
      <<"i", "n", "t", "e", "r", "n", "s", "h", "i", "p">>,
      <<"f", "u", "l", "l", "-", "t", "i", "m", "e">>,
      <<"p", "a", "r", "t", "-", "t", "i", "m", "e">>,
      <<"c", "o", "-", "o", "p">>,
      <<"c", "o", "o", "p">> }

IsAllowedType(ty) ==
    \E a \in AllowedTypeNames :
        Len(a) = Len(ty) /\ \A i \in 1..Len(a) : SameLetter(a[i], ty[i])

C10_OnlyJobTypesReturned ==
    job_results # NotRun =>
        \A i \in 1..Len(job_results.value) :
            /\ IsAllowedType(FieldOf(job_results.value[i], "Type"))
            /\ FieldOf(job_results.value[i], "Type") # <<"E", "v", "e", "n", "t">>

\* the store holds an Event row that matches the arguments, and getJobs
\* returned another row
C10_Witness ==
    /\ job_results # NotRun
    /\ query_args # <<>>
    /\ \E i \in 1..Len(store.rows) :
          /\ store.rows[i].Type = <<"E", "v", "e", "n", "t">>
          /\ store.rows[i].Title = <<"G", "o">>
    /\ Len(job_results.value) = 1

(***************************************************************************)
(* The message text of format_jobs_message.  A character outside ASCII is  *)
(* one element of the str, named by its code point.                        *)
(***************************************************************************)
Digits == <<"0", "1", "2", "3", "4", "5", "6", "7", "8", "9">>

\* str(n) for an int n >= 0
RECURSIVE str_int(_)
str_int(n) ==
    IF n < 10 THEN <<Digits[n + 1]>>
    ELSE Append(str_int(n \div 10), Digits[(n % 10) + 1])

\* sep.join(parts)
RECURSIVE join_with(_, _)
join_with(sep, parts) ==
    IF parts = <<>> THEN <<>>
    ELSE IF Len(parts) = 1 THEN parts[1]
    ELSE parts[1] \o sep \o join_with(sep, Tail(parts))

\* job.get(key, default)
dict_get(job, key, default) == IF key \in DOMAIN job THEN job[key] ELSE default

\* the order in which filters.items() yields the slots: the order in which
\* the parser put them into the dict
items_order == <<"role", "type", "season", "company", "location", "general_search">>

\* a slot key as a str
key_text(k) ==
    CASE k = "role" -> <<"r", "o", "l", "e">>
      [] k = "type" -> <<"t", "y", "p", "e">>
      [] k = "season" -> <<"s", "e", "a", "s", "o", "n">>
      [] k = "company" -> <<"c", "o", "m", "p", "a", "n", "y">>
      [] k = "location" -> <<"l", "o", "c", "a", "t", "i", "o", "n">>
      [] k = "general_search" -> <<"g", "e", "n", "e", "r", "a", "l", "_", "s", "e", "a", "r",
              "c", "h">>

\* the literal texts of format_jobs_message
message_words ==
    [ no_jobs |->
          <<"U+1F4BC", " ", "N", "o", " ", "j", "o", "b", "s", " ", "f", "o",
            "u", "n", "d", " ", "m", "a", "t", "c", "h", "i", "n", "g", " ",
            "y", "o", "u", "r", " ", "c", "r", "i", "t", "e", "r", "i", "a",
            ".">>,
      search |->
          <<"s", "e", "a", "r", "c", "h", ":", " ">>,
      filters |->
          <<" ", "(", "F", "i", "l", "t", "e", "r", "s", ":", " ">>,
      found |->
          <<"U+1F4BC", " ", "*", "*", "F", "o", "u", "n", "d", " ">>,
      jobs |->
          <<" ", "j", "o", "b", "(", "s", ")">>,
      header_end |->
          <<":", "*", "*", "\n", "\n">>,
      untitled |->
          <<"U", "n", "t", "i", "t", "l", "e", "d", " ", "P", "o", "s", "i",
            "t", "i", "o", "n">>,
      unknown_company |->
          <<"U", "n", "k", "n", "o", "w", "n", " ", "C", "o", "m", "p", "a",
            "n", "y">>,
      no_location |->
          <<"L", "o", "c", "a", "t", "i", "o", "n", " ", "n", "o", "t", " ",
            "s", "p", "e", "c", "i", "f", "i", "e", "d">>,
      posted |->
          <<"U+1F4C5", " ", "P", "o", "s", "t", "e", "d", ":", " ">>,
      apply |->
          <<"U+1F517", " ", "[", "A", "p", "p", "l", "y", " ", "H", "e", "r",
            "e", "]", "(">>,
      and_more |->
          <<".", ".", ".", " ", "a", "n", "d", " ">>,
      more |->
          <<" ", "m", "o", "r", "e", " ", "j", "o", "b", "s", ".", " ", "U",
            "s", "e", " ", "m", "o", "r", "e", " ", "s", "p", "e", "c", "i",
            "f", "i", "c", " ", "f", "i", "l", "t", "e", "r", "s", " ", "t",
            "o", " ", "n", "a", "r", "r", "o", "w", " ", "r", "e", "s", "u",
            "l", "t", "s", ".">> ]

\* f"search: {value}" for general_search, f"{key}: {value}" otherwise
filter_desc_entry(k, v) ==
    IF k = "general_search" THEN message_words.search \o v
    ELSE key_text(k) \o <<":", " ">> \o v

\* bot.py has no case for general_search
bot_filter_desc_entry(k, v) == key_text(k) \o <<":", " ">> \o v

\* filter_desc: one entry per slot of filters whose value is truthy
RECURSIVE filter_desc(_, _, _)
filter_desc(fs, i, by_bot) ==
    IF i > Len(items_order) THEN <<>>
    ELSE LET k == items_order[i]
         IN  IF k \in DOMAIN fs /\ Truthy(fs[k])
             THEN <<IF by_bot THEN bot_filter_desc_entry(k, fs[k][1])
                    ELSE filter_desc_entry(k, fs[k][1])>> \o filter_desc(fs, i + 1, by_bot)
             ELSE filter_desc(fs, i + 1, by_bot)

\* f" (Filters: {', '.join(filter_desc)})" if filter_desc else ""
filter_text(desc) ==
    IF desc = <<>> THEN <<>>
    ELSE message_words.filters \o join_with(<<",", " ">>, desc) \o <<")">>

\* f"... **Found {len(jobs)} job(s){filter_text}:**\n\n"
header_text(n, ftext) ==
    message_words.found \o str_int(n) \o message_words.jobs \o ftext \o message_words.header_end

\* title = job.get('Description', job.get('Title', 'Untitled Position'))
job_title(job) ==
    dict_get(job, "Description", dict_get(job, "Title", message_words.untitled))

\* the text job_event.format_jobs_message adds for one job
job_text(job) ==
    LET company == dict_get(job, "Title", message_words.unknown_company)
        location == dict_get(job, "Location", message_words.no_location)
        when_date == dict_get(job, "whenDate", <<>>)
        pub_date == dict_get(job, "pubDate", <<>>)
        link == dict_get(job, "link", <<>>)
    IN  <<"*", "*">> \o job_title(job) \o <<"*", "*", "\n">>
        \o <<"U+1F3E2", " ">> \o company \o <<"\n">>
        \o (IF location # <<>> THEN <<"U+1F4CD", " ">> \o location ELSE <<>>)
        \o <<"\n">>
        \o (IF when_date # <<>> THEN <<"U+1F4C5", " ">> \o when_date \o <<"\n">> ELSE <<>>)
        \o (IF pub_date # <<>> THEN message_words.posted \o pub_date \o <<"\n">> ELSE <<>>)
        \o (IF link # <<>> THEN message_words.apply \o link \o <<")", "\n">> ELSE <<>>)
        \o <<"\n">>

\* the text the format_jobs_message nested in bot.py adds for one job
bot_job_text(job) ==
    LET company == dict_get(job, "Title", message_words.unknown_company)
        location == dict_get(job, "Location", message_words.no_location)
        when_date == dict_get(job, "whenDate", <<>>)
        pub_date == dict_get(job, "pubDate", <<>>)
        link == dict_get(job, "link", <<>>)
    IN  <<"*", "*">> \o job_title(job) \o <<"*", "*", "\n">>
        \o <<"U+1F3E2", " ">> \o company
        \o (IF location # <<>> THEN <<" ", "U+2022", " ", "U+1F4CD", " ">> \o location
            ELSE <<>>)
        \o <<"\n">>
        \o (IF when_date # <<>> THEN <<"U+1F4C5", " ">> \o when_date \o <<"\n">>
            ELSE IF pub_date # <<>> THEN message_words.posted \o pub_date \o <<"\n">>
            ELSE <<>>)
        \o (IF link # <<>> THEN message_words.apply \o link \o <<")", "\n">> ELSE <<>>)
        \o <<"\n">>

\* variant: the slice keeps one job more
display_jobs_eleven(js) == SubSeq(js, 1, Min({Len(js), display_limit + 1}))

\* display_jobs = jobs[:10]
display_jobs(js) == SubSeq(js, 1, Min({Len(js), display_limit}))

\* the for loop over display_jobs
RECURSIVE blocks_text(_, _)
blocks_text(js, by_bot) ==
    IF js = <<>> THEN <<>>
    ELSE (IF by_bot THEN bot_job_text(Head(js)) ELSE job_text(Head(js)))
         \o blocks_text(Tail(js), by_bot)

\* f"... and {len(jobs) - 10} more jobs. Use more specific filters ..."
more_text(n) ==
    IF n > display_limit
    THEN message_words.and_more \o str_int(n - display_limit) \o message_words.more
    ELSE <<>>

\* variant: the empty list is not told apart
is_empty_never(js) == FALSE

\* not jobs
is_empty(js) == js = <<>>

\* format_jobs_message(jobs, filters) as a str; by_bot selects the function
\* nested in bot.py, otherwise the one of data_processing/job_event.py
format_message_text(js, fs, by_bot) ==
    IF is_empty(js) THEN message_words.no_jobs
    ELSE header_text(Len(js), filter_text(filter_desc(fs, 1, by_bot)))
         \o blocks_text(display_jobs(js), by_bot)
         \o more_text(Len(js))

(***************************************************************************)
(* Formatting a result list, and the reply of the jobs handler.            *)
(***************************************************************************)
MaxFound == 11

\* a message longer than this is refused by the chat platform
message_budget == 2000

error_reply ==
    <<"U+274C", " ", "S", "o", "r", "r", "y", ",", " ", "t", "h", "e", "r",
      "e", " ", "w", "a", "s", " ", "a", "n", " ", "e", "r", "r", "o", "r",
      " ", "s", "e", "a", "r", "c", "h", "i", "n", "g", " ", "f", "o", "r",
      " ", "j", "o", "b", "s", ".", " ", "P", "l", "e", "a", "s", "e", " ",
      "t", "r", "y", " ", "a", "g", "a", "i", "n", " ", "l", "a", "t", "e",
      "r", ".">>

\* the jobs handler of bot.py from the formatting on: the message goes to
\* ctx.send whole; a send the platform refuses raises, and the except branch
\* sends the error reply.  The value is the list of messages handed to
\* ctx.send.
jobs_reply(js, fs) ==
    LET text == format_message_text(js, fs, TRUE)
    IN  IF Len(text) <= message_budget THEN <<text>> ELSE <<text, error_reply>>

\* A job whose only text is its Title and its posting date, with an empty
\* Location, and a job with every field, its Description a long one
long_description == [i \in 1..200 |-> "x"]

FoundPool ==
    { [ Title |-> <<"a">>, Location |-> <<>>, pubDate |-> <<"p">> ],
      [ Title |-> <<"b">>, Description |-> long_description,
        Location |-> <<"N", "Y">>, whenDate |-> <<"w">>, pubDate |-> <<"p">>,
        link |-> <<"u">> ] }

\* filters as job_event.paste_jobs_command builds them, and no filters
FilterPool ==
    { [k \in {} |-> None],
      empty_params,
      [empty_params EXCEPT !["role"] = Some(<<"g", "o">>),
                           !["general_search"] = Some(<<"a", " ", "b">>)] }

\* filters as the jobs handler of bot.py passes them: {} for blank
\* arguments, the result of parse_jobs_command otherwise
BotFilterPool ==
    { [k \in {} |-> None],
      [k \in bot_param_names |-> None],
      [k \in bot_param_names |-> IF k = "type" THEN Some(<<"g", "o">>) ELSE None] }

\* one more job matched the query
AddFound ==
    /\ message = NotRun
    /\ Len(found) < MaxFound
    /\ \E job \in FoundPool : found' = Append(found, job)
    /\ UNCHANGED <<message, parseVars, filterVars, queryVars, harvestVars,
                 laterVars>>

\* job_event.format_jobs_message(found, fs)
FormatJobsMessage ==
    /\ message = NotRun
    /\ \E fs \in FilterPool :
          message' = [ status |-> "returned", by |-> "job_event", filters |-> fs,
                       text |-> format_message_text(found, fs, FALSE),
                       handed |-> <<>> ]
    /\ UNCHANGED <<found, parseVars, filterVars, queryVars, harvestVars,
                 laterVars>>

\* the jobs handler of bot.py: message = format_jobs_message(job_results,
\* filters); await ctx.send(message)
BotJobsReply ==
    /\ message = NotRun
    /\ \E fs \in BotFilterPool :
          message' = [ status |-> "returned", by |-> "bot", filters |-> fs,
                       text |-> format_message_text(found, fs, TRUE),
                       handed |-> jobs_reply(found, fs) ]
    /\ UNCHANGED <<found, parseVars, filterVars, queryVars, harvestVars,
                 laterVars>>

NextFormat == AddFound \/ FormatJobsMessage \/ BotJobsReply

SpecFormat == Init /\ [][NextFormat]_vars

(***************************************************************************)
(* Reading a message text back: the count its header states, the places    *)
(* where a result block starts, the title each block shows, and the count  *)
(* its last line states.                                                   *)
(***************************************************************************)
IsDigit(c) == c \in {"0", "1", "2", "3", "4", "5", "6", "7", "8", "9"}

DigitValue(c) ==
    CASE c = "0" -> 0 [] c = "1" -> 1 [] c = "2" -> 2 [] c = "3" -> 3
      [] c = "4" -> 4 [] c = "5" -> 5 [] c = "6" -> 6 [] c = "7" -> 7
      [] c = "8" -> 8 [] c = "9" -> 9

\* the number a run of digits denotes, -1 for an empty run
RECURSIVE NumberOf(_)
NumberOf(ds) ==
    IF ds = <<>> THEN -1
    ELSE IF Len(ds) = 1 THEN DigitValue(ds[1])
    ELSE 10 * NumberOf(SubSeq(ds, 1, Len(ds) - 1)) + DigitValue(ds[Len(ds)])

StartsWith(t, p) == Len(t) >= Len(p) /\ SubSeq(t, 1, Len(p)) = p

EndsWith(t, p) == Len(t) >= Len(p) /\ SubSeq(t, Len(t) - Len(p) + 1, Len(t)) = p

\* the digits of t from position i on
RECURSIVE DigitsFrom(_, _)
DigitsFrom(t, i) ==
    IF i <= Len(t) /\ IsDigit(t[i]) THEN <<t[i]>> \o DigitsFrom(t, i + 1) ELSE <<>>

\* the digits of t that end at position i
RECURSIVE DigitsUpTo(_, _)
DigitsUpTo(t, i) ==
    IF i >= 1 /\ IsDigit(t[i]) THEN Append(DigitsUpTo(t, i - 1), t[i]) ELSE <<>>

\* the text p stands in t at position i
StandsAt(t, i, p) ==
    i >= 1 /\ i + Len(p) - 1 <= Len(t) /\ SubSeq(t, i, i + Len(p) - 1) = p

FoundWords == <<"*", "*", "F", "o", "u", "n", "d", " ">>

JobsWords == <<" ", "j", "o", "b", "(", "s", ")">>

\* the number n of a header "X **Found n job(s)", where X is one character;
\* -1 when t has no such header
HeaderCount(t) ==
    LET ds == DigitsFrom(t, 3 + Len(FoundWords))
    IN  IF /\ StandsAt(t, 3, FoundWords)
           /\ ds # <<>>
           /\ StandsAt(t, 3 + Len(FoundWords) + Len(ds), JobsWords)
        THEN NumberOf(ds)
        ELSE -1

\* the positions of the bold marks' characters
Stars(t) == {j \in 1..Len(t) : t[j] = "*"}

\* a result block starts after an empty line, with the bold mark of its title
BlockStartsAmong(t, stars) ==
    {p \in stars : p >= 3 /\ p + 1 \in stars /\ t[p - 2] = "\n" /\ t[p - 1] = "\n"}

BlockStarts(t) == BlockStartsAmong(t, Stars(t))

\* the title between the bold marks of the block that starts at p
TitleAt(t, p, stars) == SubSeq(t, p + 2, Min({j \in stars : j >= p + 2}) - 1)

\* the titles of the blocks that start at the positions S, in text order
RECURSIVE TitlesAt(_, _, _)
TitlesAt(t, S, stars) ==
    IF S = {} THEN <<>>
    ELSE LET p == Min(S) IN <<TitleAt(t, p, stars)>> \o TitlesAt(t, S \ {p}, stars)

\* the title a job is shown under: its Description, else its Title
ShownTitle(job) ==
    IF "Description" \in DOMAIN job THEN job.Description
    ELSE IF "Title" \in DOMAIN job THEN job.Title
    ELSE <<"U", "n", "t", "i", "t", "l", "e", "d", " ", "P", "o", "s", "i",
           "t", "i", "o", "n">>

MoreWords ==
    <<" ", "m", "o", "r", "e", " ", "j", "o", "b", "s", ".", " ", "U", "s",
      "e", " ", "m", "o", "r", "e", " ", "s", "p", "e", "c", "i", "f", "i",
      "c", " ", "f", "i", "l", "t", "e", "r", "s", " ", "t", "o", " ", "n",
      "a", "r", "r", "o", "w", " ", "r", "e", "s", "u", "l", "t", "s", ".">>

AndWords == <<".", ".", ".", " ", "a", "n", "d", " ">>

\* t ends with the line "... and N more jobs"
HasMoreLine(t) ==
    /\ EndsWith(t, MoreWords)
    /\ LET ds == DigitsUpTo(t, Len(t) - Len(MoreWords))
       IN  /\ ds # <<>>
           /\ StandsAt(t, Len(t) - Len(MoreWords) - Len(ds) - Len(AndWords) + 1, AndWords)

MoreCount(t) ==
    IF HasMoreLine(t) THEN NumberOf(DigitsUpTo(t, Len(t) - Len(MoreWords))) ELSE 0

ShownLimit == 10

(***************************************************************************)
(* C11.  For n >= 1 jobs the message of format_jobs_message, of            *)
(* job_event.py and of bot.py alike, states n in its header, has exactly   *)
(* min(n, 10) result blocks, which show the first jobs of the list in list *)
(* order, and ends with the line "... and N more" if and only if n > 10,   *)
(* where N = n - 10; the number of blocks plus N is n.                     *)
(***************************************************************************)
C11_TenBlocksAndRemainder ==
    (message # NotRun /\ found # <<>>) =>
        LET t == message.text
            n == Len(found)
            m == IF n < ShownLimit THEN n ELSE ShownLimit
            stars == Stars(t)
            starts == BlockStartsAmong(t, stars)
        IN  /\ HeaderCount(t) = n
            /\ Cardinality(starts) = m
            /\ TitlesAt(t, starts, stars) = [k \in 1..m |-> ShownTitle(found[k])]
            /\ HasMoreLine(t) <=> n > ShownLimit
            /\ n > ShownLimit => MoreCount(t) = n - ShownLimit
            /\ Cardinality(starts) + MoreCount(t) = n

\* eleven jobs of both kinds were formatted, with active filters
C11_Witness ==
    /\ message # NotRun
    /\ Len(found) = 11
    /\ \E i, j \in 1..10 : found[i] # found[j]
    /\ \E k \in DOMAIN message.filters : Truthy(message.filters[k])
    /\ MoreCount(message.text) = 1

(***************************************************************************)
(* C12.  For an empty job list format_jobs_message returns the fixed text  *)
(* "No jobs found matching your criteria." whatever the filters are: the   *)
(* text has no header, no filter description and no result block.          *)
(***************************************************************************)
NoJobsFoundMessage ==
    <<"U+1F4BC", " ", "N", "o", " ", "j", "o", "b", "s", " ", "f", "o", "u",
      "n", "d", " ", "m", "a", "t", "c", "h", "i", "n", "g", " ", "y", "o",
      "u", "r", " ", "c", "r", "i", "t", "e", "r", "i", "a", ".">>

C12_NoJobsFixedMessage ==
    (message # NotRun /\ found = <<>>) =>
        /\ message.text = NoJobsFoundMessage
        /\ HeaderCount(message.text) = -1
        /\ BlockStarts(message.text) = {}

\* the empty list was formatted with an active filter
C12_Witness ==
    /\ message # NotRun
    /\ found = <<>>
    /\ \E k \in DOMAIN message.filters : Truthy(message.filters[k])

(***************************************************************************)
(* C13.  Every message the jobs handler hands to the chat platform is at   *)
(* most 2000 characters long, for any number of jobs and any field         *)
(* lengths.                                                                *)
(***************************************************************************)
C13_MessagesWithinBudget ==
    message # NotRun =>
        \A i \in 1..Len(message.handed) : Len(message.handed[i]) <= 2000

(***************************************************************************)
(* The RSS harvester of data_collections/jobs.py: its regular expressions, *)
(* computed on the characters of the text.                                 *)
(***************************************************************************)
VALID_STATES ==
    { <<"A", "L">>, <<"A", "K">>, <<"A", "Z">>, <<"A", "R">>, <<"C", "A">>, <<"C", "O">>,
      <<"C", "T">>, <<"D", "E">>, <<"F", "L">>, <<"G", "A">>, <<"H", "I">>, <<"I", "D">>,
      <<"I", "L">>, <<"I", "N">>, <<"I", "A">>, <<"K", "S">>, <<"K", "Y">>, <<"L", "A">>,
      <<"M", "E">>, <<"M", "D">>, <<"M", "A">>, <<"M", "I">>, <<"M", "N">>, <<"M", "S">>,
      <<"M", "O">>, <<"M", "T">>, <<"N", "E">>, <<"N", "V">>, <<"N", "H">>, <<"N", "J">>,
      <<"N", "M">>, <<"N", "Y">>, <<"N", "C">>, <<"N", "D">>, <<"O", "H">>, <<"O", "K">>,
      <<"O", "R">>, <<"P", "A">>, <<"R", "I">>, <<"S", "C">>, <<"S", "D">>, <<"T", "N">>,
      <<"T", "X">>, <<"U", "T">>, <<"V", "T">>, <<"V", "A">>, <<"W", "A">>, <<"W", "V">>,
      <<"W", "I">>, <<"W", "Y">> }

Unknown == <<"U", "n", "k", "n", "o", "w", "n">>

IsUpper(c) == \E i \in 1..Len(UpperCase) : UpperCase[i] = c

IsLetter(c) == \E i \in 1..Len(UpperCase) : c \in {UpperCase[i], LowerCase[i]}

IsDecimal(c) == \E i \in 1..Len(Digits) : Digits[i] = c

\* the regex class \w
IsWordChar(c) == IsLetter(c) \/ IsDecimal(c) \/ c = "_"

\* the non-empty text p stands in s at position i
at_pos(s, i, p) ==
    /\ i >= 1 /\ i + Len(p) - 1 <= Len(s)
    /\ s[i] = p[1]
    /\ SubSeq(s, i, i + Len(p) - 1) = p

\* the same, under re.IGNORECASE, for a pattern p of lower-case letters
at_pos_ignorecase(s, i, p) ==
    /\ i >= 1 /\ i + Len(p) - 1 <= Len(s)
    /\ lower_char(s[i]) = p[1]
    /\ lower(SubSeq(s, i, i + Len(p) - 1)) = p

\* the first position from i on whose character is no whitespace (\s* and
\* \s+ take the whole run when what follows is no whitespace)
RECURSIVE skip_space(_, _)
skip_space(s, i) == IF i <= Len(s) /\ IsSpace(s[i]) THEN skip_space(s, i + 1) ELSE i

\* the end of the line that holds position i: the position of the first
\* line break from i on, or one past the end (what .* stops at)
RECURSIVE line_end(_, _)
line_end(s, i) == IF i > Len(s) \/ s[i] = "\n" THEN i ELSE line_end(s, i + 1)

\* \s+at matches at position i, under re.IGNORECASE
at_word_here(s, i) ==
    /\ i <= Len(s) /\ IsSpace(s[i])
    /\ at_pos_ignorecase(s, skip_space(s, i), <<"a", "t">>)

\* re.sub(r"\s+at.*", "", s, flags=re.IGNORECASE): every match, from its
\* first whitespace to the end of the line, is taken out
RECURSIVE sub_at(_, _)
sub_at(s, i) ==
    IF i > Len(s) THEN <<>>
    ELSE IF at_word_here(s, i)
         THEN sub_at(s, line_end(s, skip_space(s, i) + 2))
         ELSE <<s[i]>> \o sub_at(s, i + 1)

\* title = re.sub(...)
clean_title(title) == sub_at(title, 1)

Employer == <<"E", "m", "p", "l", "o", "y", "e", "r", ":">>

Expires == <<"E", "x", "p", "i", "r", "e", "s", ":">>

\* the lookahead (?=\n|<|Expires:) holds at position j
employer_stop(s, j) ==
    j <= Len(s) /\ (s[j] = "\n" \/ s[j] = "<" \/ at_pos(s, j, Expires))

\* re.search(r"Employer:.*?(?=\n|<|Expires:)", s, re.DOTALL): the leftmost
\* "Employer:" that has a stop after it matches, up to the first such stop
employer_search(s) ==
    LET starts == {i \in 1..Len(s) :
                      /\ at_pos(s, i, Employer)
                      /\ \E j \in (i + Len(Employer))..Len(s) : employer_stop(s, j)}
    IN  IF starts = {} THEN None
        ELSE LET i == Min(starts)
                 j == Min({k \in (i + Len(Employer))..Len(s) : employer_stop(s, k)})
             IN  Some(SubSeq(s, i, j - 1))

\* match.group().removeprefix("Employer: ")
removeprefix_employer(m) ==
    IF at_pos(m, 1, Employer \o <<" ">>) THEN SubSeq(m, Len(Employer) + 2, Len(m)) ELSE m

\* the Company of an entry
company_of(descrip) ==
    LET match == employer_search(descrip)
    IN  IF match # None THEN strip(removeprefix_employer(match[1])) ELSE Unknown

(***************************************************************************)
(* The expiry date of an entry.                                            *)
(***************************************************************************)
\* the int a str of digits denotes
RECURSIVE int_of(_)
int_of(ds) ==
    IF ds = <<>> THEN 0
    ELSE 10 * int_of(SubSeq(ds, 1, Len(ds) - 1))
         + (CHOOSE v \in 0..9 : Digits[v + 1] = ds[Len(ds)])

\* \d{2}/\d{2}/\d{4} stands in s at position i
date_shape_at(s, i) ==
    /\ i >= 1 /\ i + 9 <= Len(s)
    /\ \A k \in {0, 1, 3, 4, 6, 7, 8, 9} : IsDecimal(s[i + k])
    /\ s[i + 2] = "/" /\ s[i + 5] = "/"

\* re.search(r"Expires:\s*(\d{2}/\d{2}/\d{4})", s): group 1 of the leftmost
\* match, None when there is no match
expires_search(s) ==
    LET starts == {i \in 1..Len(s) :
                      /\ at_pos(s, i, Expires)
                      /\ date_shape_at(s, skip_space(s, i + Len(Expires)))}
    IN  IF starts = {} THEN None
        ELSE LET d == skip_space(s, Min(starts) + Len(Expires))
             IN  Some(SubSeq(s, d, d + 9))

is_leap(year) == (year % 4 = 0 /\ year % 100 # 0) \/ year % 400 = 0

days_in_month(year, month) ==
    IF month = 2 THEN (IF is_leap(year) THEN 29 ELSE 28)
    ELSE IF month \in {4, 6, 9, 11} THEN 30
    ELSE 31

\* variant: the day is checked against 31 only
strptime_any_month_length(date_str) ==
    LET month == int_of(SubSeq(date_str, 1, 2))
        day == int_of(SubSeq(date_str, 4, 5))
        year == int_of(SubSeq(date_str, 7, 10))
    IN  IF month \in 1..12 /\ year >= 1 /\ day \in 1..31
        THEN Returned(<<year, month, day>>)
        ELSE Raised("ValueError")

\* datetime.datetime.strptime(date_str, "%m/%d/%Y") for a date_str of the
\* shape dd/dd/dddd: the date, or ValueError when the month is not 1..12,
\* the day is not a day of that month, or the year is 0
strptime(date_str) ==
    LET month == int_of(SubSeq(date_str, 1, 2))
        day == int_of(SubSeq(date_str, 4, 5))
        year == int_of(SubSeq(date_str, 7, 10))
    IN  IF month \in 1..12 /\ year >= 1 /\ day \in 1..days_in_month(year, month)
        THEN Returned(<<year, month, day>>)
        ELSE Raised("ValueError")

\* variant: the ValueError of strptime is not caught
date_or_unknown_uncaught(date_str) ==
    IF strptime(date_str).status = "raised" THEN Raised("ValueError")
    ELSE Returned(date_str)

\* try: strptime(...); whenDate = date_str; except ValueError: "Unknown"
date_or_unknown(date_str) ==
    IF strptime(date_str).status = "raised" THEN Returned(Unknown)
    ELSE Returned(date_str)

\* the whenDate of an entry, or the exception that leaves the loop
when_date_of(descrip) ==
    LET match == expires_search(descrip)
    IN  IF match # None THEN date_or_unknown(match[1]) ELSE Returned(Unknown)

(***************************************************************************)
(* extract_locations(description).  The result list is built from a set;   *)
(* the model keeps the set.                                                *)
(***************************************************************************)
\* \b holds between positions i - 1 and i
word_boundary(s, i) ==
    (i >= 2 /\ i - 1 <= Len(s) /\ IsWordChar(s[i - 1]))
        # (i >= 1 /\ i <= Len(s) /\ IsWordChar(s[i]))

\* re.search(rf"\b{w}\b", s, re.IGNORECASE) for a lower-case word w
has_word(s, w) ==
    \E i \in 1..Len(s) :
        /\ at_pos_ignorecase(s, i, w)
        /\ word_boundary(s, i)
        /\ word_boundary(s, i + Len(w))

\* re.search(r"Location\s*:\s*(.+?)(?:\n|$)", s, re.IGNORECASE): group 1 of
\* the leftmost match.  After the colon \s* takes the whitespace that
\* follows, line breaks included, and gives back one character when nothing
\* else is left for the group; the group ends before the next line break.
location_line_search(s) ==
    LET word == <<"l", "o", "c", "a", "t", "i", "o", "n">>
        colon(i) == skip_space(s, i + Len(word))
        group_start(i) ==
            LET r == skip_space(s, colon(i) + 1)
            IN  IF r <= Len(s) THEN r
                ELSE IF \E k \in (colon(i) + 1)..Len(s) : s[k] # "\n"
                     THEN Max({k \in (colon(i) + 1)..Len(s) : s[k] # "\n"})
                     ELSE 0
        starts == {i \in 1..Len(s) :
                      /\ at_pos_ignorecase(s, i, word)
                      /\ colon(i) <= Len(s) /\ s[colon(i)] = ":"
                      /\ group_start(i) # 0}
    IN  IF starts = {} THEN None
        ELSE LET g == group_start(Min(starts))
             IN  Some(SubSeq(s, g, line_end(s, g + 1) - 1))

\* the class [A-Za-z .\-'&]
IsPlaceChar(c) == IsLetter(c) \/ c \in {" ", ".", "-", "'", "&"}

\* the first position from i on whose character is not of the class
RECURSIVE place_end(_, _)
place_end(s, i) == IF i <= Len(s) /\ IsPlaceChar(s[i]) THEN place_end(s, i + 1) ELSE i

\* re.findall(r"([A-Za-z .\-'&]+?, [A-Z]{2})", s): a match starts at a
\* character of the class and runs over the class to a comma, a blank and
\* two capitals; the scan goes on after the match
RECURSIVE findall_places(_, _)
findall_places(s, i) ==
    IF i > Len(s) THEN <<>>
    ELSE LET c == place_end(s, i)
         IN  IF /\ c > i
                /\ c + 3 <= Len(s)
                /\ s[c] = "," /\ s[c + 1] = " "
                /\ IsUpper(s[c + 2]) /\ IsUpper(s[c + 3])
             THEN <<SubSeq(s, i, c + 3)>> \o findall_places(s, c + 4)
             ELSE findall_places(s, i + 1)

\* len(loc.split()) <= 3
max_words == 3

\* the test under "Validate state part", for a stripped match loc
accepts_location(loc) ==
    /\ SubSeq(loc, Len(loc) - 1, Len(loc)) \in VALID_STATES
    /\ Len(split(loc)) <= max_words

Remote == <<"R", "e", "m", "o", "t", "e">>

Hybrid == <<"H", "y", "b", "r", "i", "d">>

\* variant: the result set is handed back as it is, also when it is empty
extract_locations_no_sentinel(description) ==
    IF description = <<>> THEN {}
    ELSE LET line == location_line_search(description)
             matches == IF line = None THEN <<>> ELSE findall_places(strip(line[1]), 1)
         IN  (IF has_word(description, <<"r", "e", "m", "o", "t", "e">>)
              THEN {Remote} ELSE {})
             \cup (IF has_word(description, <<"h", "y", "b", "r", "i", "d">>)
                   THEN {Hybrid} ELSE {})
             \cup {strip(matches[k]) : k \in {n \in 1..Len(matches) :
                                                accepts_location(strip(matches[n]))}}

\* "if not description" takes None and "" alike; both are the empty sequence
extract_locations(description) ==
    IF description = <<>> THEN {Unknown}
    ELSE LET line == location_line_search(description)
             matches == IF line = None THEN <<>> ELSE findall_places(strip(line[1]), 1)
             result ==
                 (IF has_word(description, <<"r", "e", "m", "o", "t", "e">>)
                     \/ has_word(description,
                                 <<"t", "e", "l", "e", "c", "o", "m", "m", "u", "t", "e">>)
                  THEN {Remote} ELSE {})
                 \cup (IF has_word(description, <<"h", "y", "b", "r", "i", "d">>)
                       THEN {Hybrid} ELSE {})
                 \cup {strip(matches[k]) : k \in {n \in 1..Len(matches) :
                                                    accepts_location(strip(matches[n]))}}
         IN  IF result # {} THEN result ELSE {Unknown}

(***************************************************************************)
(* getJobs(url) of data_collections/jobs.py.                               *)
(***************************************************************************)
failed_to_parse ==
    <<"F", "a", "i", "l", "e", "d", " ", "t", "o", " ", "p", "a", "r", "s",
      "e", " ", "t", "h", "e", " ", "R", "S", "S", " ", "f", "e", "e", "d",
      " ", "f", "r", "o", "m", " ">>

malformed_feed ==
    <<"M", "a", "l", "f", "o", "r", "m", "e", "d", " ", "R", "S", "S", " ",
      "f", "e", "e", "d", " ">>

\* repr(url), for a url without quotes or escapes
repr(url) == <<"'">> \o url \o <<"'">>

\* variant: entry.get(key, "Unknown")
entry_get_unknown(entry, key) == IF key \in DOMAIN entry THEN entry[key] ELSE Unknown

\* entry.get(key, "")
entry_get(entry, key) == IF key \in DOMAIN entry THEN entry[key] ELSE <<>>

\* variant: a feed with entries is not taken as malformed
is_malformed_without_entries(data) == data.bozo /\ data.entries = <<>>

\* getattr(data, "bozo", False)
is_malformed(data) == data.bozo

\* the job dict built from one entry, or the exception its building raises;
\* now is what datetime.datetime.now(tz=datetime.timezone.utc) reads
entry_job(entry, now) ==
    LET descrip == entry_get(entry, "description")
        whenDate == when_date_of(descrip)
    IN  IF whenDate.status = "raised" THEN whenDate
        ELSE Returned([ Type        |-> <<"J", "o", "b">>,
                        subType     |-> <<>>,
                        Company     |-> company_of(descrip),
                        Title       |-> clean_title(entry_get(entry, "title")),
                        Description |-> <<>>,
                        whenDate    |-> whenDate.value,
                        pubDate     |-> entry_get(entry, "published"),
                        Location    |-> extract_locations(descrip),
                        link        |-> entry_get(entry, "link"),
                        entryDate   |-> now ])

\* variant: jobs.insert(0, job)
jobs_insert_first(acc, job) == <<job>> \o acc

\* jobs.append(job)
jobs_append(acc, job) == Append(acc, job)

\* for entry in data.get("entries", []): ... jobs.append(job); stamps[i] is
\* the clock reading of the i-th pass
RECURSIVE entries_loop(_, _, _, _)
entries_loop(entries, i, acc, stamps) ==
    IF i > Len(entries) THEN Returned(acc)
    ELSE LET job == entry_job(entries[i], stamps[i])
         IN  IF job.status = "raised" THEN job
             ELSE entries_loop(entries, i + 1, jobs_append(acc, job.value), stamps)

\* getJobs(url), where fd is what feedparser.parse(url) does and stamps are
\* the clock readings of the passes of the loop
rss_getJobs(url, fd, stamps) ==
    IF fd.raises # None
    THEN Raised([ class |-> "RuntimeError",
                  text  |-> failed_to_parse \o url \o <<":", " ">> \o fd.raises[1].text ])
    ELSE IF is_malformed(fd)
    THEN Raised([ class |-> "RuntimeError",
                  text  |-> malformed_feed \o repr(url) \o <<":", " ">>
                            \o fd.bozo_exception ])
    ELSE entries_loop(fd.entries, 1, <<>>, stamps)

(***************************************************************************)
(* A harvest run: the feed the parser delivers, and getJobs on it.         *)
(***************************************************************************)
MaxEntries == 3
MaxClock == 2

\* The readings n successive calls of datetime.now make in a call that
\* starts at the time from: the first reads that time, time may pass
\* between two readings, and the clock of the model does not run backwards.
Readings(n, from) ==
    {s \in [1..n -> from..MaxClock] :
        /\ n >= 1 => s[1] = from
        /\ \A k \in 1..(n - 1) : s[k] <= s[k + 1]}

feed_url == <<"u">>

\* An entry with every field; one with a title only; one whose expiry date
\* is no date; one with no field at all; one whose description has no
\* employer, date or location
EntryPool ==
    { [ title |-> <<"D", "e", "v", " ", "a", "t", " ", "A", "c", "m", "e">>,
        description |->
        <<"E", "m", "p", "l", "o", "y", "e", "r", ":", " ", "A", "c", "m",
          "e", "\n", "E", "x", "p", "i", "r", "e", "s", ":", " ", "0", "8",
          "/", "0", "1", "/", "2", "0", "2", "5", "\n", "L", "o", "c", "a",
          "t", "i", "o", "n", ":", " ", "B", "o", "s", "t", "o", "n", ",",
          " ", "M", "A">>,
        published |-> <<"p", "1">>, link |-> <<"l", "1">> ],
      [ title |-> <<"Q", "A">> ],
      [ title |-> <<"O", "p", "s", " ", "A", "T", " ", "C", "o">>,
        description |->
        <<"E", "m", "p", "l", "o", "y", "e", "r", ":", " ", "C", "o", "<",
          "b", "r", ">", "E", "x", "p", "i", "r", "e", "s", ":", " ", "1",
          "3", "/", "4", "5", "/", "2", "0", "2", "5">>,
        published |-> <<"p", "3">>, link |-> <<"l", "3">> ],
      [ k \in {} |-> <<>> ],
      [ title |-> <<"O", "p", "s">>, description |-> <<"n", "o", "n", "e">>,
        link |-> <<"l", "5">> ] }

\* what feedparser.parse can raise
FailurePool ==
    { [ class |-> "ConnectionError",
        text |->
        <<"C", "o", "n", "n", "e", "c", "t", "i", "o", "n", " ",
                   "r", "e", "f", "u", "s", "e", "d">> ],
      [ class |-> "TimeoutError", text |-> <<"t", "i", "m", "e", "d", " ", "o",
                                          "u", "t">> ],
      [ class |-> "ValueError", text |-> <<"b", "a", "d">> ] }

not_well_formed == <<"n", "o", "t", " ", "w", "e", "l", "l", "-", "f",
                        "o", "r", "m", "e", "d">>

\* the feed has one entry more
AddEntry ==
    /\ harvested = NotRun
    /\ feed.raises = None
    /\ npieces = 0
    /\ Len(feed.entries) < MaxEntries
    /\ \E e \in EntryPool : feed' = [feed EXCEPT !.entries = Append(@, e)]
    /\ UNCHANGED <<npieces, harvested, clock, parseVars, filterVars, queryVars,
                 formatVars, laterVars>>

\* the parser finds the feed not well formed
SetBozo ==
    /\ harvested = NotRun
    /\ feed.raises = None
    /\ ~feed.bozo
    /\ feed' = [feed EXCEPT !.bozo = TRUE, !.bozo_exception = not_well_formed]
    /\ UNCHANGED <<npieces, harvested, clock, parseVars, filterVars, queryVars,
                 formatVars, laterVars>>

\* fetching or parsing the feed raises
FetchFails ==
    /\ harvested = NotRun
    /\ feed.raises = None
    /\ \E e \in FailurePool : feed' = [feed EXCEPT !.raises = Some(e)]
    /\ UNCHANGED <<npieces, harvested, clock, parseVars, filterVars, queryVars,
                 formatVars, laterVars>>

\* getJobs(url)
Harvest ==
    /\ harvested = NotRun
    /\ \E stamps \in Readings(Len(feed.entries), clock) :
          /\ harvested' = rss_getJobs(feed_url, feed, stamps)
          /\ clock' = IF harvested'.status = "returned" /\ stamps # <<>>
                      THEN stamps[Len(stamps)] ELSE clock
    /\ UNCHANGED <<feed, npieces, parseVars, filterVars, queryVars, formatVars,
                 laterVars>>

NextHarvest == AddEntry \/ SetBozo \/ FetchFails \/ Harvest

SpecHarvest == Init /\ [][NextHarvest]_vars

(***************************************************************************)
(* C14.  The outcome of getJobs is decided in this order: when fetching or *)
(* parsing raises, it raises a RuntimeError "Failed to parse the RSS feed" *)
(* whose text holds the text of the cause; otherwise, when the bozo flag   *)
(* is set, it raises a RuntimeError "Malformed RSS feed", also when the    *)
(* feed has entries; only otherwise it returns records.                    *)
(***************************************************************************)
FailedToParseWords ==
    <<"F", "a", "i", "l", "e", "d", " ", "t", "o", " ", "p", "a", "r", "s",
      "e", " ", "t", "h", "e", " ", "R", "S", "S", " ", "f", "e", "e", "d">>

MalformedWords ==
    <<"M", "a", "l", "f", "o", "r", "m", "e", "d", " ", "R", "S", "S", " ",
      "f", "e", "e", "d">>

C14_OutcomeOrder ==
    harvested # NotRun =>
        IF feed.raises # None
        THEN /\ harvested.status = "raised"
             /\ harvested.exc.class = "RuntimeError"
             /\ StartsWith(harvested.exc.text, FailedToParseWords)
             /\ EndsWith(harvested.exc.text, feed.raises[1].text)
        ELSE IF feed.bozo
        THEN /\ harvested.status = "raised"
             /\ harvested.exc.class = "RuntimeError"
             /\ StartsWith(harvested.exc.text, MalformedWords)
        ELSE harvested.status = "returned"

\* a feed with entries and the bozo flag set was harvested
C14_Witness ==
    /\ harvested # NotRun
    /\ feed.raises = None
    /\ feed.bozo
    /\ Len(feed.entries) >= 2
    /\ harvested.status = "raised"

(***************************************************************************)
(* C15.  When the fetch fails with a network error (connection refused,    *)
(* timeout) getJobs raises an error of the kind "Network error", not of    *)
(* the kind "Failed to parse the RSS feed".                                *)
(***************************************************************************)
NetworkErrorWords == <<"N", "e", "t", "w", "o", "r", "k", " ", "e", "r",
                           "r", "o", "r">>

C15_NetworkErrorKind ==
    (/\ harvested # NotRun
     /\ feed.raises # None
     /\ feed.raises[1].class \in {"ConnectionError", "TimeoutError"}) =>
        /\ harvested.status = "raised"
        /\ \E i \in 1..Len(harvested.exc.text) :
              StandsAt(harvested.exc.text, i, NetworkErrorWords)
        /\ ~StartsWith(harvested.exc.text, FailedToParseWords)

(***************************************************************************)
(* C16.  On a well-formed feed getJobs returns one record per entry, in    *)
(* entry order, and the empty list for a feed without entries; an entry    *)
(* with a missing field or with a field that cannot be extracted is not    *)
(* dropped, does not end the run, and raises nothing.                      *)
(***************************************************************************)
FieldOrEmpty(e, k) == IF k \in DOMAIN e THEN e[k] ELSE <<>>

C16_OneRecordPerEntry ==
    (harvested # NotRun /\ feed.raises = None /\ ~feed.bozo) =>
        /\ harvested.status = "returned"
        /\ Len(harvested.value) = Len(feed.entries)
        /\ \A i \in 1..Len(feed.entries) :
              /\ harvested.value[i].link = FieldOrEmpty(feed.entries[i], "link")
              /\ harvested.value[i].pubDate = FieldOrEmpty(feed.entries[i], "published")

\* a well-formed feed whose first entry has no field, whose second has a
\* date that is no date, and whose third is complete was harvested
C16_Witness ==
    /\ harvested # NotRun
    /\ feed.raises = None /\ ~feed.bozo
    /\ Len(feed.entries) = 3
    /\ DOMAIN feed.entries[1] = {}
    /\ harvested.status = "returned"
    /\ harvested.value[2].whenDate = <<"U", "n", "k", "n", "o", "w", "n">>
    /\ FieldOrEmpty(feed.entries[2], "link") = <<"l", "3">>
    /\ harvested.value[3].whenDate # <<"U", "n", "k", "n", "o", "w", "n">>

(***************************************************************************)
(* A feed of one entry whose title or description is typed piece by piece. *)
(***************************************************************************)
MaxPieces == 3

TitlePieces ==
    { <<"D", "e", "v">>,
      <<" ", "a", "t", " ">>,
      <<" ", "A", "T">>,
      <<"l", "a", "s">>,
      <<" ">>,
      <<"C", "o">>,
      <<"\n">> }

ExpiryPieces ==
    { <<"E", "x", "p", "i", "r", "e", "s", ":">>,
      <<"E", "x", "p", "i", "r", "e", "s", ":", " ">>,
      <<" ">>,
      <<"\n">>,
      <<"x">>,
      <<"0", "1", "/", "3", "1", "/", "2", "0", "2", "5">>,
      <<"1", "3", "/", "4", "5", "/", "2", "0", "2", "5">>,
      <<"0", "2", "/", "2", "9", "/", "2", "0", "2", "4">>,
      <<"0", "2", "/", "2", "9", "/", "2", "0", "2", "3">>,
      <<"0", "4", "/", "3", "1", "/", "2", "0", "2", "5">>,
      <<"0", "0", "/", "1", "0", "/", "2", "0", "2", "5">>,
      <<"1", "2", "/", "3", "1", "/", "0", "0", "0", "0">>,
      <<"1", "/", "1", "/", "2", "0", "2", "5">>,
      <<"E", "x", "p", "i", "r", "e", "s", ":", " ", "1", "3", "/", "4",
          "5", "/", "2", "0", "2", "5", " ">> }

EmployerPieces ==
    { <<"E", "m", "p", "l", "o", "y", "e", "r", ":">>,
      <<"E", "m", "p", "l", "o", "y", "e", "r", ":", " ">>,
      <<"A", "c", "m", "e">>,
      <<" ">>,
      <<"\n">>,
      <<"<">>,
      <<"E", "x", "p", "i", "r", "e", "s", ":">> }

LocationPieces ==
    { <<"L", "o", "c", "a", "t", "i", "o", "n", ":", " ">>,
      <<"B", "o", "s", "t", "o", "n", ",", " ", "M", "A">>,
      <<"N", "e", "w", " ", "Y", "o", "r", "k", " ", "C", "i", "t", "y",
          ",", " ", "N", "Y">>,
      <<"P", "a", "r", "i", "s", ",", " ", "F", "R">>,
      <<"M", "a", "i", "n", " ", "O", "f", "f", "i", "c", "e", " ", "D",
          "o", "w", "n", "t", "o", "w", "n", " ", "B", "o", "s", "t", "o",
          "n", ",", " ", "M", "A">>,
      <<",", " ">>,
      <<"\n">>,
      <<"x">>,
      <<"A", "u", "s", "t", "i", "n", ",", " ", "T", "X">> }

\* the entry gets the piece p at the end of its field
TypeText(field, p) ==
    /\ harvested = NotRun
    /\ feed.raises = None /\ ~feed.bozo
    /\ npieces < MaxPieces
    /\ Len(feed.entries) = (IF npieces = 0 THEN 0 ELSE 1)
    /\ feed' = [feed EXCEPT !.entries =
                   <<[k \in {field} |-> (IF npieces = 0 THEN <<>> ELSE @[1][field]) \o p]>>]
    /\ npieces' = npieces + 1
    /\ UNCHANGED <<harvested, clock, parseVars, filterVars, queryVars, formatVars,
                 laterVars>>

TypeTitle == \E p \in TitlePieces : TypeText("title", p)

TypeExpiry == \E p \in ExpiryPieces : TypeText("description", p)

TypeEmployer == \E p \in EmployerPieces : TypeText("description", p)

TypeLocation == \E p \in LocationPieces : TypeText("description", p)

NextTitle == TypeTitle \/ Harvest

SpecTitle == Init /\ [][NextTitle]_vars

NextExpiry == TypeExpiry \/ Harvest

SpecExpiry == Init /\ [][NextExpiry]_vars

NextEmployer == TypeEmployer \/ Harvest

SpecEmployer == Init /\ [][NextEmployer]_vars

NextLocation == TypeLocation \/ Harvest

SpecLocation == Init /\ [][NextLocation]_vars

\* the one entry of the feed was harvested into one record
HarvestedOne ==
    /\ harvested # NotRun
    /\ harvested.status = "returned"
    /\ Len(feed.entries) = 1
    /\ Len(harvested.value) = 1

TypedTitle == FieldOrEmpty(feed.entries[1], "title")

TypedDescription == FieldOrEmpty(feed.entries[1], "description")

UnknownWord == <<"U", "n", "k", "n", "o", "w", "n">>

\* t is s without its leading and trailing whitespace, for any s
TrimmedIs(t, s) == IF IsBlank(s) THEN t = <<>> ELSE IsTrimOf(t, s)

(***************************************************************************)
(* C17.  The whenDate of a harvested record is "Unknown", or it is a token *)
(* of the shape MM/DD/YYYY that follows "Expires:" in the description and  *)
(* is a date of the calendar; a description without such a token, or with  *)
(* a token that is no date, gives "Unknown", and nothing is raised.        *)
(***************************************************************************)
ExpiresWord == <<"E", "x", "p", "i", "r", "e", "s", ":">>

HasDateShape(tok) ==
    /\ Len(tok) = 10
    /\ tok[3] = "/" /\ tok[6] = "/"
    /\ \A k \in {1, 2, 4, 5, 7, 8, 9, 10} : IsDigit(tok[k])

\* tok stands in d after an "Expires:", with only whitespace in between
FollowsExpires(d, tok) ==
    \E i \in 1..Len(d) :
        /\ StandsAt(d, i, ExpiresWord)
        /\ \E j \in (i + Len(ExpiresWord))..Len(d) :
              /\ StandsAt(d, j, tok)
              /\ \A m \in (i + Len(ExpiresWord))..(j - 1) : d[m] \in {" ", "\t", "\n"}

MonthLengths == <<31, 28, 31, 30, 31, 30, 31, 31, 30, 31, 30, 31>>

IsLeapYear(y) == IF y % 100 = 0 THEN y % 400 = 0 ELSE y % 4 = 0

\* the token names a day of the calendar
IsCalendarDate(tok) ==
    LET mm == NumberOf(SubSeq(tok, 1, 2))
        dd == NumberOf(SubSeq(tok, 4, 5))
        yy == NumberOf(SubSeq(tok, 7, 10))
    IN  /\ mm \in 1..12
        /\ dd >= 1
        /\ dd <= (IF mm = 2 /\ IsLeapYear(yy) THEN 29 ELSE MonthLengths[mm])

EmployerWord == <<"E", "m", "p", "l", "o", "y", "e", "r", ":">>

HasEmployer(d) == \E i \in 1..Len(d) : StandsAt(d, i, EmployerWord)

\* the text between the first "Employer:" and the first line break, "<" or
\* "Expires:" after it (the end of d when there is none)
EmployerText(d) ==
    LET i == Min({k \in 1..Len(d) : StandsAt(d, k, EmployerWord)}) + Len(EmployerWord)
        stops == {j \in i..Len(d) :
                     d[j] = "\n" \/ d[j] = "<" \/ StandsAt(d, j, ExpiresWord)}
    IN  SubSeq(d, i, IF stops = {} THEN Len(d) ELSE Min(stops) - 1)

C18_CompanyIsEmployerText ==
    HarvestedOne =>
        LET d == TypedDescription
            company == harvested.value[1].Company
        IN  /\ (HasEmployer(d) /\ ~IsBlank(EmployerText(d))) =>
                   TrimmedIs(company, EmployerText(d))
            /\ ~StartsWith(company, EmployerWord)
            /\ company = UnknownWord => (~HasEmployer(d) \/ IsBlank(EmployerText(d)))

(***************************************************************************)
(* C19.  The Title of a record is the entry title cut at the first ' at '  *)
(* (the word "at" in any letter case, with whitespace on both sides) and   *)
(* trimmed of leading and trailing whitespace; a title without such a word *)
(* is kept whole, apart from the trimming.                                 *)
(***************************************************************************)
\* the whitespace before a standalone "at" starts at position i of s
StandaloneAtAt(s, i) ==
    /\ i + 3 <= Len(s)
    /\ s[i] \in {" ", "\t", "\n"}
    /\ s[i + 1] \in {"a", "A"} /\ s[i + 2] \in {"t", "T"}
    /\ s[i + 3] \in {" ", "\t", "\n"}

\* s up to the first standalone "at", the whole of s when it has none
CutAtStandaloneAt(s) ==
    LET ats == {i \in 1..Len(s) : StandaloneAtAt(s, i)}
    IN  IF ats = {} THEN s ELSE SubSeq(s, 1, Min(ats) - 1)

C19_TitleCutAtStandaloneAt ==
    HarvestedOne =>
        TrimmedIs(harvested.value[1].Title, CutAtStandaloneAt(TypedTitle))

(***************************************************************************)
(* C20.  extract_locations returns a "<place>, <ST>" string that stands in *)
(* the Location: line if and only if ST is a US state code and the string  *)
(* has at most 4 words; a pair with another code or with more words is     *)
(* left out, and a pair outside the Location: line is never returned.      *)
(***************************************************************************)
LocationWord == <<"L", "o", "c", "a", "t", "i", "o", "n", ":">>

PlaceCandidates ==
    { <<"B", "o", "s", "t", "o", "n", ",", " ", "M", "A">>,
      <<"N", "e", "w", " ", "Y", "o", "r", "k", " ", "C", "i", "t", "y",
          ",", " ", "N", "Y">>,
      <<"P", "a", "r", "i", "s", ",", " ", "F", "R">>,
      <<"M", "a", "i", "n", " ", "O", "f", "f", "i", "c", "e", " ", "D",
          "o", "w", "n", "t", "o", "w", "n", " ", "B", "o", "s", "t", "o",
          "n", ",", " ", "M", "A">>,
      <<"A", "u", "s", "t", "i", "n", ",", " ", "T", "X">> }

\* the text of the Location: line after the colon, <<>> when d has no such
\* line
LocationLine(d) ==
    LET heads == {i \in 1..Len(d) : StandsAt(d, i, LocationWord)}
    IN  IF heads = {} THEN <<>>
        ELSE LET a == Min(heads) + Len(LocationWord)
                 breaks == {j \in a..Len(d) : d[j] = "\n"}
             IN  SubSeq(d, a, IF breaks = {} THEN Len(d) ELSE Min(breaks) - 1)

\* c stands in the line as an item: at the start of the line or after a
\* comma, blanks aside, and not followed by a letter
StandsAsItem(c, line) ==
    \E p \in 1..Len(line) :
        /\ StandsAt(line, p, c)
        /\ LET before == {m \in 1..(p - 1) : line[m] # " "}
           IN  before = {} \/ line[Max(before)] = ","
        /\ p + Len(c) <= Len(line) => ~IsLetter(line[p + Len(c)])

WordCount(c) ==
    Cardinality({i \in 1..Len(c) : c[i] # " " /\ (i = 1 \/ c[i - 1] = " ")})

C20_LocationPairsAccepted ==
    HarvestedOne =>
        \A c \in PlaceCandidates :
            c \in harvested.value[1].Location
                <=> /\ StandsAsItem(c, LocationLine(TypedDescription))
                    /\ SubSeq(c, Len(c) - 1, Len(c)) \in VALID_STATES
                    /\ WordCount(c) <= 4

(***************************************************************************)
(* A feed of one entry whose description is typed from location cues,      *)
(* place names and other text; the empty piece gives the empty text.       *)
(***************************************************************************)
CuePieces ==
    { <<"R", "e", "m", "o", "t", "e">>,
      <<"h", "y", "b", "r", "i", "d">>,
      <<"r", "e", "m", "o", "t", "e", "l", "y">>,
      <<" ", "T", "E", "L", "E", "C", "O", "M", "M", "U", "T", "E", " ">>,
      <<"L", "o", "c", "a", "t", "i", "o", "n", ":", " ">>,
      <<"B", "o", "s", "t", "o", "n", ",", " ", "M", "A">>,
      <<"P", "a", "r", "i", "s", ",", " ", "F", "R">>,
      <<"N", "e", "w", " ", "Y", "o", "r", "k", " ", "C", "i", "t", "y", ",",
        " ", "N", "Y">>,
      <<"S", "a", "l", "t", " ", "L", "a", "k", "e", " ", "C", "i", "t", "y",
        ",", " ", "U", "T">>,
      <<>>,
      <<"x">>,
      <<" ">>,
      <<"\n">> }

TypeCue == \E p \in CuePieces : TypeText("description", p)

NextCue == TypeCue \/ Harvest

SpecCue == Init /\ [][NextCue]_vars

(***************************************************************************)
(* C21.  extract_locations never raises and never returns an empty         *)
(* collection.  "Remote" is returned exactly when the text has the word    *)
(* remote or telecommute, "Hybrid" exactly when it has the word hybrid     *)
(* (letter case aside); every other returned token except "Unknown" is a   *)
(* trimmed "<place>, <ST>" string of the text after the Location head,     *)
(* with a US state code and at most three words, and every such pair that  *)
(* stands as an item of the Location line is returned.  "Unknown" is       *)
(* returned exactly when nothing else is, so for the empty text, and it is *)
(* then the only token.                                                    *)
(***************************************************************************)
\* the word w stands in d at i, letter case aside, with no word character
\* on either side
CueAt(d, i, w) ==
    /\ i + Len(w) - 1 <= Len(d)
    /\ \A k \in 1..Len(w) : SameLetter(w[k], d[i + k - 1])
    /\ i > 1 => ~IsWordChar(d[i - 1])
    /\ i + Len(w) <= Len(d) => ~IsWordChar(d[i + Len(w)])

HasCue(d, w) == \E i \in 1..Len(d) : CueAt(d, i, w)

RemoteCue(d) ==
    \/ HasCue(d, <<"r", "e", "m", "o", "t", "e">>)
    \/ HasCue(d, <<"t", "e", "l", "e", "c", "o", "m", "m", "u", "t", "e">>)

HybridCue(d) == HasCue(d, <<"h", "y", "b", "r", "i", "d">>)

\* x is a trimmed "<place>, <ST>" string of at most three words that stands
\* in d after a Location head
IsPairOf(x, d) ==
    /\ Len(x) >= 5
    /\ ~IsSpace(x[1])
    /\ SubSeq(x, Len(x) - 3, Len(x) - 2) = <<",", " ">>
    /\ SubSeq(x, Len(x) - 1, Len(x)) \in VALID_STATES
    /\ \A k \in 1..(Len(x) - 4) : IsLetter(x[k]) \/ x[k] \in {" ", ".", "-", "'", "&"}
    /\ WordCount(x) <= 3
    /\ \E h \in 1..Len(d) :
          /\ h + 8 <= Len(d)
          /\ \A k \in 1..8 : SameLetter(LocationWord[k], d[h + k - 1])
          /\ \E q \in (h + 8)..Len(d) : StandsAt(d, q, x)

TypedLocation == harvested.value[1].Location

RecordKeys ==
    {"Type", "subType", "Company", "Title", "Description", "whenDate",
     "pubDate", "Location", "link", "entryDate"}

Lacks(e, k) == k \notin DOMAIN e

C22_AllKeysValueOrSentinel ==
    (harvested # NotRun /\ harvested.status = "returned") =>
        \A k \in 1..Len(harvested.value) :
            LET r == harvested.value[k]
                e == feed.entries[k]
            IN  /\ DOMAIN r = RecordKeys
                /\ r.subType = <<>> /\ r.Description = <<>>
                /\ r.Type = <<"J", "o", "b">>
                /\ r.Location # {}
                /\ r.entryDate \in 0..MaxClock
                /\ Lacks(e, "title") => r.Title = <<>>
                /\ Lacks(e, "published") => r.pubDate = <<>>
                /\ Lacks(e, "link") => r.link = <<>>
                /\ Lacks(e, "description") =>
                      /\ r.Company = UnknownWord
                      /\ r.whenDate = UnknownWord
                      /\ r.Location = {UnknownWord}

\* an entry with no field at all was harvested next to one with every field
C22_Witness ==
    /\ harvested # NotRun /\ harvested.status = "returned"
    /\ \E k \in 1..Len(feed.entries) : DOMAIN feed.entries[k] = {}
    /\ \E k \in 1..Len(feed.entries) :
          DOMAIN feed.entries[k] = {"title", "description", "published", "link"}

(***************************************************************************)
(* Harvesting while time passes: the clock advances before, and after, the *)
(* call of getJobs.                                                        *)
(***************************************************************************)
Tick ==
    /\ clock < MaxClock
    /\ clock' = clock + 1
    /\ UNCHANGED <<feed, npieces, harvested, parseVars, filterVars, queryVars,
                 formatVars, laterVars>>

NextStamp == AddEntry \/ Tick \/ Harvest

SpecStamp == Init /\ [][NextStamp]_vars

(***************************************************************************)
(* C23.  The entryDate values of the records one call of getJobs returns   *)
(* do not decrease in list order: the first record holds the time the call *)
(* began at and the last one the latest clock reading.  Once returned, the *)
(* records keep their entryDate while time goes on.                        *)
(***************************************************************************)
EntryDates == [k \in 1..Len(harvested.value) |-> harvested.value[k].entryDate]

NonDecreasing(ds) == \A j, k \in 1..Len(ds) : j < k => ds[j] <= ds[k]

C23_EntryDateOrderedAndKept ==
    /\ [](harvested # NotRun =>
            /\ harvested.status = "returned"
            /\ NonDecreasing(EntryDates)
            /\ \A k \in 1..Len(EntryDates) : EntryDates[k] <= clock)
    /\ [][/\ harvested # NotRun => harvested' = harvested
          /\ (harvested = NotRun /\ harvested' # NotRun /\ feed.entries # <<>>) =>
                /\ harvested'.value[1].entryDate = clock
                /\ harvested'.value[Len(feed.entries)].entryDate = clock']_vars

\* three records whose stamps differ, read after the harvest by a later clock
C23_Witness ==
    /\ harvested # NotRun
    /\ Len(harvested.value) = 3
    /\ EntryDates[1] < EntryDates[2]
    /\ EntryDates[3] < clock

(***************************************************************************)
(* The scheduled harvest run of data_collections/mainRSSRunner.py.  The    *)
(* harvesters getEvents and getInternships and the store writer            *)
(* items_to_csv are modelled from their contract: a harvester raises a     *)
(* RuntimeError when its source cannot be fetched or parsed and otherwise  *)
(* returns one record per entry, stamped when it is made; the writer       *)
(* merges the batch into the rows of the store under remove_duplicates.    *)
(***************************************************************************)
EVENTS == <<"E", "V", "E", "N", "T", "S">>

INTERNSHIPS == <<"I", "N", "T", "E", "R", "N", "S", "H", "I", "P", "S">>

task_not_set ==
    <<"T", "A", "S", "K", "_", "T", "Y", "P", "E", " ", "v", "a", "r", "i",
      "a", "b", "l", "e", " ", "n", "o", "t", " ", "s", "e", "t">>

events_url_not_set ==
    <<"E", "V", "E", "N", "T", "S", "_", "R", "S", "S", "_", "U", "R", "L",
      " ", "v", "a", "r", "i", "a", "b", "l", "e", " ", "n", "o", "t", " ",
      "s", "e", "t">>

internships_url_not_set ==
    <<"I", "N", "T", "E", "R", "N", "S", "H", "I", "P", "S", "_", "M", "A",
      "R", "K", "D", "O", "W", "N", "_", "U", "R", "L", " ", "v", "a", "r",
      "i", "a", "b", "l", "e", " ", "n", "o", "t", " ", "s", "e", "t">>

unsupported_task == <<"U", "n", "s", "u", "p", "p", "o", "r", "t", "e", "d", " ", "T", "A",
      "S", "K", "_", "T", "Y", "P", "E", ":", " ">>

\* the record a harvester makes of one entry of its source
source_record(type, entry, now) ==
    [ Type        |-> type,
      subType     |-> <<>>,
      Company     |-> <<>>,
      Title       |-> entry_get(entry, "title"),
      Description |-> <<>>,
      whenDate    |-> Unknown,
      pubDate     |-> entry_get(entry, "published"),
      Location    |-> {Unknown},
      link        |-> entry_get(entry, "link"),
      entryDate   |-> now ]

harvester(type, url, fd, stamps) ==
    IF fd.raises # None
    THEN Raised([ class |-> "RuntimeError",
                  text  |-> failed_to_parse \o url \o <<":", " ">> \o fd.raises[1].text ])
    ELSE IF fd.bozo
    THEN Raised([ class |-> "RuntimeError",
                  text  |-> malformed_feed \o repr(url) \o <<":", " ">>
                            \o fd.bozo_exception ])
    ELSE Returned([k \in 1..Len(fd.entries) |->
                      source_record(type, fd.entries[k], stamps[k])])

getEvents(url, fd, stamps) == harvester(<<"E", "v", "e", "n", "t">>, url, fd, stamps)

getInternships(url, fd, stamps) ==
    harvester(<<"I", "n", "t", "e", "r", "n", "s", "h", "i", "p">>, url, fd, stamps)

\* items_to_csv(data, path): the rows of the file afterwards
items_to_csv(data, rows) == remove_duplicates(rows \o data)

\* run_events_RSS(url), for url = os.getenv("EVENTS_RSS_URL")
run_events_RSS(url, fd, stamps) ==
    IF ~Truthy(url) THEN Raised([class |-> "ValueError", text |-> events_url_not_set])
    ELSE getEvents(url[1], fd, stamps)

\* run_internships_markdown(url)
run_internships_markdown(url, fd, stamps) ==
    IF ~Truthy(url)
    THEN Raised([class |-> "ValueError", text |-> internships_url_not_set])
    ELSE getInternships(url[1], fd, stamps)

\* the statements of __main__ up to the call of items_to_csv: the data, or
\* the exception that ends the process
main_data(e, fd, stamps) ==
    IF ~Truthy(e.TASK_TYPE)
    THEN Raised([class |-> "ValueError", text |-> task_not_set])
    ELSE IF e.TASK_TYPE[1] = EVENTS
    THEN run_events_RSS(e.EVENTS_RSS_URL, fd, stamps)
    ELSE IF e.TASK_TYPE[1] = INTERNSHIPS
    THEN run_internships_markdown(e.INTERNSHIPS_MARKDOWN_URL, fd, stamps)
    ELSE Raised([class |-> "ValueError",
                 text |-> unsupported_task \o e.TASK_TYPE[1]])

\* variant: a failure of the harvester is taken as an empty batch
main_data_or_empty(e, fd, stamps) ==
    IF main_data(e, fd, stamps).status = "raised" THEN Returned(<<>>)
    ELSE main_data(e, fd, stamps)

\* what __main__ hands to items_to_csv, if it gets there
main_batch(e, fd, stamps) == main_data(e, fd, stamps)

\* __main__: the outcome of the run and the rows of the store after it
main(e, fd, stamps, rows) ==
    LET data == main_batch(e, fd, stamps)
    IN  IF data.status = "raised"
        THEN [outcome |-> data, rows |-> rows]
        ELSE [outcome |-> data, rows |-> items_to_csv(data.value, rows)]

(***************************************************************************)
(* Scheduled runs: the deployment sets the environment, the source gets    *)
(* entries or fails, and the runs follow one another while time passes.    *)
(***************************************************************************)
MaxRuns == 2
MaxSource == 2

EnvPool ==
    { [TASK_TYPE |-> None, EVENTS_RSS_URL |-> Some(feed_url),
       INTERNSHIPS_MARKDOWN_URL |-> Some(feed_url)],
      [TASK_TYPE |-> Some(<<>>), EVENTS_RSS_URL |-> Some(feed_url),
       INTERNSHIPS_MARKDOWN_URL |-> None],
      [TASK_TYPE |-> Some(<<"J", "O", "B", "S">>), EVENTS_RSS_URL |-> Some(feed_url),
       INTERNSHIPS_MARKDOWN_URL |-> Some(feed_url)],
      [TASK_TYPE |-> Some(EVENTS), EVENTS_RSS_URL |-> None,
       INTERNSHIPS_MARKDOWN_URL |-> Some(feed_url)],
      [TASK_TYPE |-> Some(EVENTS), EVENTS_RSS_URL |-> Some(feed_url),
       INTERNSHIPS_MARKDOWN_URL |-> None],
      [TASK_TYPE |-> Some(INTERNSHIPS), EVENTS_RSS_URL |-> Some(feed_url),
       INTERNSHIPS_MARKDOWN_URL |-> Some(<<>>)],
      [TASK_TYPE |-> Some(INTERNSHIPS), EVENTS_RSS_URL |-> None,
       INTERNSHIPS_MARKDOWN_URL |-> Some(feed_url)] }

\* two entries of one title and link, and one of another
SourcePool ==
    { [ title |-> <<"A">>, link |-> <<"l", "1">>, published |-> <<"p", "1">> ],
      [ title |-> <<"A">>, link |-> <<"l", "1">> ],
      [ title |-> <<"B">>, link |-> <<"l", "2">> ] }

\* the deployment sets the environment variables
Configure ==
    /\ runs = <<>>
    /\ env.TASK_TYPE = None /\ env.EVENTS_RSS_URL = None
    /\ \E e \in EnvPool : env' = e
    /\ UNCHANGED <<runs, store, query_args, job_results, sent, parseVars,
                 filterVars, formatVars, harvestVars, botVars>>

\* the source has one entry more, before the first run
Publish ==
    /\ runs = <<>>
    /\ feed.raises = None
    /\ Len(feed.entries) < MaxSource
    /\ \E e \in SourcePool : feed' = [feed EXCEPT !.entries = Append(@, e)]
    /\ UNCHANGED <<npieces, harvested, clock, store, query_args, job_results, sent,
                 parseVars, filterVars, formatVars, laterVars>>

\* the source turns malformed or unreachable
SourceBreaks ==
    /\ feed.raises = None /\ ~feed.bozo
    /\ \/ feed' = [feed EXCEPT !.bozo = TRUE, !.bozo_exception = not_well_formed]
       \/ \E e \in FailurePool : feed' = [feed EXCEPT !.raises = Some(e)]
    /\ UNCHANGED <<npieces, harvested, clock, store, query_args, job_results, sent,
                 parseVars, filterVars, formatVars, laterVars>>

\* time passes between the runs
Wait ==
    /\ clock < MaxClock
    /\ clock' = clock + 1
    /\ UNCHANGED <<feed, npieces, harvested, store, query_args, job_results, sent,
                 parseVars, filterVars, formatVars, laterVars>>

\* python -m data_collections.mainRSSRunner; the run is logged with the
\* source it read
ScheduledRun ==
    /\ Len(runs) < MaxRuns
    /\ store.status = "ok"
    /\ \E stamps \in Readings(Len(feed.entries), clock) :
          LET m == main(env, feed, stamps, store.rows)
          IN  /\ runs' = Append(runs, [source |-> feed, outcome |-> m.outcome,
                                       rows |-> m.rows])
              /\ store' = [store EXCEPT !.rows = m.rows]
              /\ clock' = IF m.outcome.status = "returned" /\ stamps # <<>>
                          THEN stamps[Len(stamps)] ELSE clock
    /\ UNCHANGED <<env, feed, npieces, harvested, query_args, job_results, sent,
                 parseVars, filterVars, formatVars, botVars>>

NextRun == Configure \/ Publish \/ SourceBreaks \/ Wait \/ ScheduledRun

SpecRun == Init /\ [][NextRun]_vars

(***************************************************************************)
(* C24.  When two successive runs read the same source and both append,    *)
(* the store has after the second run the rows it had after the first: the *)
(* second append adds no row, also when its batch has later entryDate      *)
(* stamps.                                                                 *)
(***************************************************************************)
Appended(r) == r.outcome.status = "returned"

C24_SecondAppendAddsNoRow ==
    \A j \in 1..(Len(runs) - 1) :
        (/\ Appended(runs[j]) /\ Appended(runs[j + 1])
         /\ runs[j + 1].source = runs[j].source)
            => /\ Len(runs[j + 1].rows) = Len(runs[j].rows)
               /\ runs[j + 1].rows = runs[j].rows

\* two runs on one source of two different entries; every record of the
\* second batch has a later stamp than its record of the first
C24_Witness ==
    /\ Len(runs) = 2
    /\ Appended(runs[1]) /\ Appended(runs[2])
    /\ runs[2].source = runs[1].source
    /\ Len(runs[1].rows) = 2
    /\ Len(runs[2].outcome.value) = Len(runs[1].outcome.value)
    /\ \A k \in 1..Len(runs[1].outcome.value) :
          runs[2].outcome.value[k].entryDate > runs[1].outcome.value[k].entryDate

(***************************************************************************)
(* C25.  A run ends with an error exactly when TASK_TYPE is unset, empty   *)
(* or unsupported, the URL of the selected task is unset or empty, or the  *)
(* harvester raises; the store then has the rows it had before the run.    *)
(* Otherwise the run appends: every record of the batch has its row.  The  *)
(* store always holds the rows the last run left.                          *)
(***************************************************************************)
Unset(v) == v = None \/ v = Some(<<>>)

RunMustFail(src) ==
    \/ Unset(env.TASK_TYPE)
    \/ env.TASK_TYPE \notin {Some(EVENTS), Some(INTERNSHIPS)}
    \/ env.TASK_TYPE = Some(EVENTS) /\ Unset(env.EVENTS_RSS_URL)
    \/ env.TASK_TYPE = Some(INTERNSHIPS) /\ Unset(env.INTERNSHIPS_MARKDOWN_URL)
    \/ src.raises # None
    \/ src.bozo

RowsBefore(k) == IF k = 1 THEN <<>> ELSE runs[k - 1].rows

HasRowOf(rows, rec) ==
    \E i \in 1..Len(rows) :
        /\ rows[i].Title = rec.Title
        /\ rows[i].link = rec.link

C25_AppendOnlyAfterHarvest ==
    /\ store.rows = RowsBefore(Len(runs) + 1)
    /\ \A k \in 1..Len(runs) :
          LET r == runs[k]
          IN  /\ RunMustFail(r.source) <=> r.outcome.status = "raised"
              /\ r.outcome.status = "raised" =>
                    /\ r.rows = RowsBefore(k)
                    /\ r.outcome.exc.class \in {"ValueError", "RuntimeError"}
              /\ r.outcome.status = "returned" =>
                    /\ Len(r.outcome.value) = Len(r.source.entries)
                    /\ \A i \in 1..Len(r.outcome.value) :
                          HasRowOf(r.rows, r.outcome.value[i])
                    /\ IsSubsequence(RowsBefore(k), r.rows)

\* the source breaks after a run that stored rows, and the next run fails
C25_Witness ==
    /\ Len(runs) = 2
    /\ runs[1].outcome.status = "returned" /\ runs[1].rows # <<>>
    /\ runs[2].outcome.status = "raised"
    /\ runs[2].outcome.exc.class = "RuntimeError"
    /\ store.rows = runs[1].rows

(***************************************************************************)
(* The jobs handler of bot.py, whole: read and filter, parse the filters   *)
(* for the header, format, send.  The channel takes a message of at most   *)
(* message_budget characters; ctx.send raises for a longer one.            *)
(***************************************************************************)
\* what the channel takes of the messages handed to ctx.send
delivered_of(handed) == SelectSeq(handed, LAMBDA m : Len(m) <= message_budget)

\* variant: no except branch around the send
jobs_outcome_uncaught(handed) ==
    IF Len(handed) > 1
    THEN [ status |-> "raised", handed |-> <<handed[1]>>, delivered |-> <<>> ]
    ELSE [ status |-> "returned", handed |-> handed,
           delivered |-> delivered_of(handed) ]

\* try: ... await ctx.send(message) except Exception: await ctx.send(...)
jobs_outcome(handed) ==
    [ status |-> "returned", handed |-> handed, delivered |-> delivered_of(handed) ]

\* async def jobs(ctx, *, args: str = "")
jobs_handler(st, args) ==
    LET parsed == IF strip(args) # <<>> THEN parse_jobs_command(args)
                  ELSE Returned([k \in {} |-> None])
    IN  IF parsed.status = "raised" THEN jobs_outcome(<<error_reply>>)
        ELSE jobs_outcome(jobs_reply(bot_getJobs(st, args), parsed.value))

\* ten rows whose Description is a long one
BatchRows == [i \in 1..10 |-> Row(Internship, <<"T">>, long_description, <<"u">>)]

\* a harvest run appended a batch of rows to the store
StoreBatch ==
    /\ handled = NotRun
    /\ store.status = "ok"
    /\ Len(store.rows) <= MaxRows
    /\ store' = [store EXCEPT !.rows = @ \o BatchRows]
    /\ UNCHANGED <<query_args, job_results, sent, parseVars, filterVars,
                 formatVars, harvestVars, runVars, botVars>>

\* !jobs <query_args>
JobsHandler ==
    /\ handled = NotRun
    /\ handled' = jobs_handler(store, query_args)
    /\ UNCHANGED <<store, query_args, job_results, sent, parseVars, filterVars,
                 formatVars, harvestVars, runVars, member_join, events_reply,
                 routed, chat>>

NextJobs == StoreRow \/ StoreBatch \/ StoreLost \/ ChooseArgs \/ JobsHandler

SpecJobs == Init /\ [][NextJobs]_vars

(***************************************************************************)
(* C26.  The jobs handler returns, for every argument string and every     *)
(* state of the store, and the channel has then got exactly one message:   *)
(* the formatted message when the channel takes it, and the fixed "try     *)
(* again later" message otherwise.  For a store that cannot be read the    *)
(* message is the no-results message; for blank arguments and a readable   *)
(* store the header counts the rows that have a Title or a Description.    *)
(***************************************************************************)
TryAgainLater ==
    <<"P", "l", "e", "a", "s", "e", " ", "t", "r", "y", " ", "a", "g", "a",
      "i", "n", " ", "l", "a", "t", "e", "r", ".">>

RowsWithText == {i \in 1..Len(store.rows) :
                    store.rows[i].Title # <<>> \/ store.rows[i].Description # <<>>}

welcome_names ==
    { <<"w", "e", "l", "c", "o", "m", "e">>,
      <<"g", "e", "n", "e", "r", "a", "l">>,
      <<"i", "n", "t", "r", "o", "d", "u", "c", "t", "i", "o", "n", "s">>,
      <<"l", "o", "b", "b", "y">> }

networking == <<"n", "e", "t", "w", "o", "r", "k", "i", "n", "g">>

\* variant: the name is compared as it is written
is_welcome_name_exact(name) == name \in welcome_names

\* channel.name.lower() in ["welcome", "general", "introductions", "lobby"]
is_welcome_name(name) == lower(name) \in welcome_names

\* for channel in member.guild.text_channels: if ... in [...]: ... break
RECURSIVE first_welcome(_, _)
first_welcome(channels, i) ==
    IF i > Len(channels) THEN None
    ELSE IF is_welcome_name(channels[i]) THEN Some(i)
    ELSE first_welcome(channels, i + 1)

\* for channel in member.guild.text_channels: if ... == "networking": ... break
RECURSIVE first_networking(_, _)
first_networking(channels, i) ==
    IF i > Len(channels) THEN None
    ELSE IF lower(channels[i]) = networking THEN Some(i)
    ELSE first_networking(channels, i + 1)

\* the channel the welcome message goes to, None for a direct message
welcome_channel(g) ==
    LET named == first_welcome(g.text_channels, 1)
    IN  IF named # None THEN named
        ELSE IF g.system_channel # None THEN g.system_channel
        ELSE IF g.text_channels # <<>> THEN Some(1)
        ELSE None

\* f"<#{networking_channel.id}>" if networking_channel else "#networking"
networking_mention(g) == first_networking(g.text_channels, 1)

\* on_member_join(member): the sends it made, and the ones that arrived;
\* result is what the send does
on_member_join(g, result) ==
    LET channel == welcome_channel(g)
        send == IF channel # None
                THEN [to |-> "channel", channel |-> channel[1],
                      mention |-> networking_mention(g)]
                ELSE [to |-> "member"]
    IN  [ status    |-> "returned",
          sends     |-> <<send>>,
          delivered |-> IF result = "ok" THEN <<send>> ELSE <<>>,
          caught    |-> IF result = "ok" THEN None ELSE Some(result) ]

(***************************************************************************)
(* A guild gets channels, and a member joins it.                           *)
(***************************************************************************)
MaxChannels == 3

ChannelNames ==
    { <<"g", "e", "n", "e", "r", "a", "l">>,
      <<"W", "e", "l", "c", "o", "m", "e">>,
      <<"L", "O", "B", "B", "Y">>,
      <<"r", "a", "n", "d", "o", "m">>,
      <<"N", "e", "t", "w", "o", "r", "k", "i", "n", "g">> }

SendResults == {"ok", "Forbidden", "HTTPException"}

\* the guild has one text channel more
AddChannel ==
    /\ member_join.outcome = NotRun
    /\ Len(member_join.text_channels) < MaxChannels
    /\ \E n \in ChannelNames :
          member_join' = [member_join EXCEPT !.text_channels = Append(@, n)]
    /\ UNCHANGED <<parseVars, filterVars, queryVars, formatVars, harvestVars,
                 runVars, handled, events_reply, routed, chat>>

\* one of the text channels is made the system channel
SetSystemChannel ==
    /\ member_join.outcome = NotRun
    /\ member_join.system_channel = None
    /\ \E i \in 1..Len(member_join.text_channels) :
          member_join' = [member_join EXCEPT !.system_channel = Some(i)]
    /\ UNCHANGED <<parseVars, filterVars, queryVars, formatVars, harvestVars,
                 runVars, handled, events_reply, routed, chat>>

\* a member joins the guild
MemberJoin ==
    /\ member_join.outcome = NotRun
    /\ \E result \in SendResults :
          member_join' = [member_join EXCEPT
                             !.outcome = on_member_join(member_join, result)]
    /\ UNCHANGED <<parseVars, filterVars, queryVars, formatVars, harvestVars,
                 runVars, handled, events_reply, routed, chat>>

NextJoin == AddChannel \/ SetSystemChannel \/ MemberJoin

SpecJoin == Init /\ [][NextJoin]_vars

(***************************************************************************)
(* C27.  On a member join the bot makes exactly one send and returns.  The *)
(* send goes to the first text channel, in guild order, whose name is      *)
(* welcome, general, introductions or lobby in any letter case; if there   *)
(* is none, to the system channel; if there is none, to the first text     *)
(* channel; if there is none, to the member.  When the send fails nothing  *)
(* arrives, nothing else is sent and the handler still returns.            *)
(***************************************************************************)
WelcomeWords ==
    { <<"w", "e", "l", "c", "o", "m", "e">>,
      <<"g", "e", "n", "e", "r", "a", "l">>,
      <<"i", "n", "t", "r", "o", "d", "u", "c", "t", "i", "o", "n", "s">>,
      <<"l", "o", "b", "b", "y">> }

NamedAsWelcome(name) ==
    \E w \in WelcomeWords :
        /\ Len(w) = Len(name)
        /\ \A k \in 1..Len(w) : SameLetter(w[k], name[k])

Destination(g) ==
    LET named == {i \in 1..Len(g.text_channels) : NamedAsWelcome(g.text_channels[i])}
    IN  IF named # {} THEN [to |-> "channel", channel |-> Min(named)]
        ELSE IF g.system_channel # None
        THEN [to |-> "channel", channel |-> g.system_channel[1]]
        ELSE IF Len(g.text_channels) >= 1 THEN [to |-> "channel", channel |-> 1]
        ELSE [to |-> "member"]

C27_OneSendByPriority ==
    member_join.outcome # NotRun =>
        LET o == member_join.outcome
            d == Destination(member_join)
        IN  /\ o.status = "returned"
            /\ Len(o.sends) = 1
            /\ o.sends[1].to = d.to
            /\ d.to = "channel" => o.sends[1].channel = d.channel
            /\ o.delivered \in {<<>>, o.sends}
            /\ o.delivered = <<>> <=> o.caught # None

\* the send to a named channel that is neither the first channel nor the
\* system channel fails for missing permission
C27_Witness ==
    /\ member_join.outcome # NotRun
    /\ member_join.outcome.caught = Some("Forbidden")
    /\ member_join.outcome.sends[1].to = "channel"
    /\ member_join.outcome.sends[1].channel = 3
    /\ member_join.system_channel = Some(2)
    /\ member_join.text_channels[3] # lower(member_join.text_channels[3])

(***************************************************************************)
(* print_events(message) of data_processing/print_events.py and of         *)
(* data_collections/print_events.py.  pandas reads an empty cell of the    *)
(* store as NaN, which has no lower() and is no container; a row of the    *)
(* model has NaN where its field is the empty sequence.                    *)
(***************************************************************************)
months ==
    << <<"j", "a", "n", "u", "a", "r", "y">>,
       <<"f", "e", "b", "r", "u", "a", "r", "y">>,
       <<"m", "a", "r", "c", "h">>,
       <<"a", "p", "r", "i", "l">>,
       <<"m", "a", "y">>,
       <<"j", "u", "n", "e">>,
       <<"j", "u", "l", "y">>,
       <<"a", "u", "g", "u", "s", "t">>,
       <<"s", "e", "p", "t", "e", "m", "b", "e", "r">>,
       <<"o", "c", "t", "o", "b", "e", "r">>,
       <<"n", "o", "v", "e", "m", "b", "e", "r">>,
       <<"d", "e", "c", "e", "m", "b", "e", "r">> >>

common_tags ==
    << <<"j", "o", "b", " ", "f", "a", "i", "r">>,
       <<"c", "a", "r", "e", "e", "r", " ", "f", "a", "i", "r">>,
       <<"w", "o", "r", "k", "s", "h", "o", "p">>,
       <<"i", "n", "f", "o", " ", "s", "e", "s", "s", "i", "o", "n">>,
       <<"e", "c", "s">>,
       <<"i", "n", "f", "o", "r", "m", "a", "t", "i", "o", "n", " ", "s",
         "e", "s", "s", "i", "o", "n">>,
       <<"s", "e", "s", "s", "i", "o", "n">>,
       <<"f", "a", "i", "r">>,
       <<"p", "a", "n", "e", "l">>,
       <<"o", "p", "e", "n", " ", "h", "o", "u", "s", "e">>,
       <<"c", "o", "n", "f", "e", "r", "e", "n", "c", "e">>,
       <<"p", "r", "e", "s", "e", "n", "t", "a", "t", "i", "o", "n">>,
       <<"t", "a", "l", "k">>,
       <<"s", "e", "m", "i", "n", "a", "r">>,
       <<"b", "o", "o", "t", "c", "a", "m", "p">>,
       <<"t", "r", "a", "i", "n", "i", "n", "g">> >>

\* the list of data_collections/print_events.py
collections_common_tags == SubSeq(common_tags, 1, 7)

no_events_found == <<"N", "o", " ", "e", "v", "e", "n", "t", "s", " ", "f", "o", "u", "n",
      "d", " ", ":", "(">>

not_available == <<"N", "/", "A">>

nan == <<"n", "a", "n">>

\* pd.notna(v)
notna(v) == v # <<>>

\* for month in months: if month in message.lower(): date = month; break
RECURSIVE find_month(_, _)
find_month(msg, i) ==
    IF i > Len(months) THEN <<>>
    ELSE IF contains(months[i], lower(msg)) THEN months[i]
    ELSE find_month(msg, i + 1)

\* for tag in common_tags: if tag in message.lower(): tags.append(tag)
find_tags(msg, all_tags) == SelectSeq(all_tags, LAMBDA t : contains(t, lower(msg)))

\* getitems(row)
getitems(row) ==
    LET or_na(v) == IF notna(v) THEN v ELSE not_available
    IN  <<"*", "*">> \o or_na(row.Title) \o <<"*", "*", "\n">>
        \o <<"W", "h", "e", "n", ":", " ">> \o or_na(row.whenDate) \o <<"\n">>
        \o <<"W", "h", "e", "r", "e", ":", " ">> \o or_na(row.Location) \o <<"\n">>
        \o <<"L", "i", "n", "k", ":", " ", "[", "C", "l", "i", "c", "k", " ",
          "H", "e", "r", "e", "]", "(">> \o or_na(row.link)
        \o <<")", " ", "\n", "\n">>

\* the block of data_collections/print_events.py: only Location is tested
\* for NaN, the other fields are formatted as they are
collections_block(row) ==
    LET str(v) == IF notna(v) THEN v ELSE nan
    IN  <<"*", "*">> \o str(row.Title) \o <<"*", "*", "\n">>
        \o <<"W", "h", "e", "n", ":", " ">> \o str(row.whenDate) \o <<"\n">>
        \o <<"W", "h", "e", "r", "e", ":", " ">> \o (IF notna(row.Location) THEN row.Location ELSE not_available)
        \o <<"\n">>
        \o <<"L", "i", "n", "k", ":", " ">> \o str(row.link) \o <<" ", "\n", "\n">>

\* the tests on one row that set event_found: TRUE or FALSE, or the
\* exception the row raises
event_found(row, date, tags) ==
    LET tagged ==
            IF tags = <<>> THEN Returned(TRUE)
            ELSE IF ~notna(row.Title) THEN Raised("AttributeError")
            ELSE Returned(\E k \in 1..Len(tags) : contains(tags[k], lower(row.Title)))
    IN  IF date # <<>>
        THEN IF ~notna(row.whenDate) THEN Raised("AttributeError")
             ELSE IF contains(date, lower(row.whenDate)) THEN tagged
             ELSE Returned(FALSE)
        ELSE tagged

\* count is set to 0 before the loop and no statement of the loop assigns it
count_after(count) == count

\* for row in database.itertuples(): ...  of data_processing/print_events.py
RECURSIVE events_loop(_, _, _, _, _, _)
events_loop(rows, i, count, date, tags, msg) ==
    IF i > Len(rows) THEN Returned(msg)
    ELSE IF ~notna(rows[i].Type) THEN Raised("TypeError")
    ELSE IF count < 7 /\ contains(<<"E", "v", "e", "n", "t">>, rows[i].Type)
    THEN LET f == event_found(rows[i], date, tags)
         IN  IF f.status = "raised" THEN f
             ELSE IF f.value
             THEN events_loop(rows, i + 1, count_after(count), date, tags,
                              msg \o getitems(rows[i]))
             ELSE events_loop(rows, i + 1, count, date, tags, msg)
    ELSE Returned(msg)

\* the same loop of data_collections/print_events.py: no test of row.Type
RECURSIVE collections_events_loop(_, _, _, _, _, _)
collections_events_loop(rows, i, count, date, tags, msg) ==
    IF i > Len(rows) THEN Returned(msg)
    ELSE IF count < 8
    THEN LET f == event_found(rows[i], date, tags)
         IN  IF f.status = "raised" THEN f
             ELSE IF f.value
             THEN collections_events_loop(rows, i + 1, count_after(count), date,
                                          tags, msg \o collections_block(rows[i]))
             ELSE collections_events_loop(rows, i + 1, count, date, tags, msg)
    ELSE Returned(msg)

\* return_msg = return_msg[:1999]; if len(return_msg) < 20: ...
cut_reply(msg) ==
    LET cut == SubSeq(msg, 1, IF Len(msg) < 1999 THEN Len(msg) ELSE 1999)
    IN  IF Len(cut) < 20 THEN no_events_found ELSE cut

\* print_events(message) of data_processing/print_events.py
print_events(rows, message_text) ==
    LET out == events_loop(rows, 1, 0, find_month(message_text, 1),
                           find_tags(message_text, common_tags), <<>>)
    IN  IF out.status = "raised" THEN out ELSE Returned(cut_reply(out.value))

\* print_events(message) of data_collections/print_events.py
collections_print_events(rows, message_text) ==
    LET out == collections_events_loop(rows, 1, 0, find_month(message_text, 1),
                                       find_tags(message_text, collections_common_tags),
                                       <<>>)
    IN  IF out.status = "raised" THEN out ELSE Returned(cut_reply(out.value))

(***************************************************************************)
(* The store gets rows, in batches of one kind, and a user asks for        *)
(* events.  The link of a row is its number in the store.                  *)
(***************************************************************************)
MaxBatches == 3

BatchSizes == {1, 4}

EventWord == <<"E", "v", "e", "n", "t">>

\* an event of March, an event of April, and a job of March
EventKinds ==
    { [ Type |-> EventWord, Title |-> <<"C", "a", "r", "e", "e", "r", " ", "F", "a", "i", "r">>,
        whenDate |-> <<"M", "a", "r", "c", "h", " ", "3">>, Location |-> <<"H", "a", "l", "l">> ],
      [ Type |-> EventWord, Title |-> <<"W", "o", "r", "k", "s", "h", "o", "p">>,
        whenDate |-> <<"A", "p", "r", "i", "l", " ", "9">>, Location |-> <<>> ],
      [ Type |-> <<"J", "o", "b">>, Title |-> <<"J", "o", "b", " ", "F", "a", "i", "r">>,
        whenDate |-> <<"M", "a", "r", "c", "h", " ", "3">>, Location |-> <<"H", "a", "l", "l">> ] }

EventMessages ==
    { <<>>,
      <<"F", "a", "i", "r", " ", "i", "n", " ", "M", "a", "r", "c", "h">>,
      <<"w", "o", "r", "k", "s", "h", "o", "p">> }

RECURSIVE batch_rows(_, _, _)
batch_rows(kind, from, n) ==
    IF n = 0 THEN <<>>
    ELSE <<[ Type |-> kind.Type, Title |-> kind.Title, whenDate |-> kind.whenDate,
             Location |-> kind.Location, link |-> <<"u">> \o str_int(from) ]>>
         \o batch_rows(kind, from + 1, n - 1)

\* a harvest run appended a batch of rows of one kind
StoreEvents ==
    /\ events_reply.outcome = NotRun
    /\ events_reply.steps < MaxBatches
    /\ \E kind \in EventKinds, n \in BatchSizes :
          events_reply' =
              [events_reply EXCEPT
                  !.rows = @ \o batch_rows(kind, Len(@) + 1, n),
                  !.steps = @ + 1]
    /\ UNCHANGED <<parseVars, filterVars, queryVars, formatVars, harvestVars,
                 runVars, handled, member_join, routed, chat>>

\* the user writes the message of the events command
AskEvents ==
    /\ events_reply.outcome = NotRun
    /\ events_reply.message = <<>>
    /\ \E m \in EventMessages \ {<<>>} :
          events_reply' = [events_reply EXCEPT !.message = m]
    /\ UNCHANGED <<parseVars, filterVars, queryVars, formatVars, harvestVars,
                 runVars, handled, member_join, routed, chat>>

\* print_events(message) of data_processing
PrintEvents ==
    /\ events_reply.outcome = NotRun
    /\ events_reply' =
          [events_reply EXCEPT
              !.outcome = [by |-> "data_processing",
                           out |-> print_events(events_reply.rows,
                                                events_reply.message)]]
    /\ UNCHANGED <<parseVars, filterVars, queryVars, formatVars, harvestVars,
                 runVars, handled, member_join, routed, chat>>

\* print_events(message) of data_collections
CollectionsPrintEvents ==
    /\ events_reply.outcome = NotRun
    /\ events_reply' =
          [events_reply EXCEPT
              !.outcome = [by |-> "data_collections",
                           out |-> collections_print_events(events_reply.rows,
                                                            events_reply.message)]]
    /\ UNCHANGED <<parseVars, filterVars, queryVars, formatVars, harvestVars,
                 runVars, handled, member_join, routed, chat>>

NextEvents == StoreEvents \/ AskEvents \/ PrintEvents \/ CollectionsPrintEvents

SpecEvents == Init /\ [][NextEvents]_vars

(***************************************************************************)
(* C28.  The reply of print_events has at most 7 event blocks (8 in the    *)
(* data_collections variant), and it has a block for every row of type     *)
(* Event that matches the month and the tags of the message, up to that    *)
(* cap, wherever the rows of another type stand in the store.              *)
(***************************************************************************)
WhenLine == <<"\n", "W", "h", "e", "n", ":", " ">>

BlockCount(t) == Cardinality({i \in 1..Len(t) : t[i] = "\n" /\ StandsAt(t, i, WhenLine)})

AskedMonths(m) == {k \in 1..Len(months) : OccursIgnoringCase(months[k], m)}

AskedTags(m) == {k \in 1..Len(common_tags) : OccursIgnoringCase(common_tags[k], m)}

MatchesAsked(row, m) ==
    /\ AskedMonths(m) # {} =>
          OccursIgnoringCase(months[Min(AskedMonths(m))], row.whenDate)
    /\ AskedTags(m) # {} =>
          \E k \in AskedTags(m) : OccursIgnoringCase(common_tags[k], row.Title)

\* the numbers of the rows of type Event that match what the message asks for
MatchingEvents(rows, m) ==
    {i \in 1..Len(rows) : rows[i].Type = EventWord /\ MatchesAsked(rows[i], m)}

EventCap(by) == IF by = "data_processing" THEN 7 ELSE 8

\* the block of the row stands in the reply: its link is there, closed by
\* the parenthesis or the blank that follows it in a block
ShownIn(row, t) ==
    \/ contains(<<"(">> \o row.link \o <<")">>, t)
    \/ contains(<<" ">> \o row.link \o <<" ", "\n">>, t)

C28_EventCapAndCoverage ==
    events_reply.outcome # NotRun /\ events_reply.outcome.out.status = "returned" =>
        LET o == events_reply.outcome
            rows == events_reply.rows
            hits == MatchingEvents(rows, events_reply.message)
        IN  /\ BlockCount(o.out.value) <= EventCap(o.by)
            /\ \A i \in hits :
                  Cardinality({k \in hits : k < i}) < EventCap(o.by) =>
                      ShownIn(rows[i], o.out.value)

(***************************************************************************)
(* T5CommandRouter.route of data-processing/t5_router.py.  The text `out`  *)
(* decoded from the language model is any text; route searches it for      *)
(* \{.*\} and hands the match to json.loads.  A JSON value of the model    *)
(* is a record with its type t (str, null, bool, obj) and its value v; an  *)
(* object is a function from its keys.  json.loads is modelled for texts   *)
(* of letters, blanks and the characters { } " : , which is what the model *)
(* outputs below are made of: no escapes, numbers or arrays.               *)
(***************************************************************************)
OPTIONAL_KEYS ==
    << <<"r", "o", "l", "e">>,
       <<"t", "y", "p", "e">>,
       <<"d", "a", "t", "e">>,
       <<"c", "o", "m", "p", "a", "n", "y">>,
       <<"l", "o", "c", "a", "t", "i", "o", "n">> >>

json_fail == [ok |-> FALSE]

json_ok(v, next) == [ok |-> TRUE, value |-> v, next |-> next]

\* the whitespace json skips between tokens
RECURSIVE json_ws(_, _)
json_ws(s, i) ==
    IF i <= Len(s) /\ s[i] \in {" ", "\n", "\t", "\r"} THEN json_ws(s, i + 1) ELSE i

\* the position of the quote that closes the string opened before i
RECURSIVE json_string_end(_, _)
json_string_end(s, i) ==
    IF i > Len(s) THEN 0
    ELSE IF s[i] = "\"" THEN i
    ELSE json_string_end(s, i + 1)

\* a string literal at i, where s[i] is its opening quote
json_string(s, i) ==
    LET j == json_string_end(s, i + 1)
    IN  IF j = 0 THEN json_fail
        ELSE json_ok([t |-> "str", v |-> SubSeq(s, i + 1, j - 1)], j + 1)

RECURSIVE json_value(_, _)
RECURSIVE json_members(_, _, _)
\* the members of an object from the key at i on; a key met again takes
\* the later value
json_members(s, i, acc) ==
    IF i > Len(s) \/ s[i] # "\"" THEN json_fail
    ELSE LET key == json_string(s, i)
         IN  IF ~key.ok THEN json_fail
             ELSE LET c == json_ws(s, key.next)
                  IN  IF c > Len(s) \/ s[c] # ":" THEN json_fail
                      ELSE LET val == json_value(s, json_ws(s, c + 1))
                           IN  IF ~val.ok THEN json_fail
                               ELSE LET e == json_ws(s, val.next)
                                        d == (key.value.v :> val.value) @@ acc
                                    IN  IF e > Len(s) THEN json_fail
                                        ELSE IF s[e] = "}"
                                        THEN json_ok([t |-> "obj", v |-> d], e + 1)
                                        ELSE IF s[e] = ","
                                        THEN json_members(s, json_ws(s, e + 1), d)
                                        ELSE json_fail

json_value(s, i) ==
    IF i > Len(s) THEN json_fail
    ELSE IF s[i] = "\"" THEN json_string(s, i)
    ELSE IF s[i] = "{"
    THEN LET m == json_ws(s, i + 1)
         IN  IF m <= Len(s) /\ s[m] = "}"
             THEN json_ok([t |-> "obj", v |-> <<>>], m + 1)
             ELSE json_members(s, m, <<>>)
    ELSE IF StandsAt(s, i, <<"n", "u", "l", "l">>) THEN json_ok([t |-> "null"], i + 4)
    ELSE IF StandsAt(s, i, <<"t", "r", "u", "e">>)
    THEN json_ok([t |-> "bool", v |-> TRUE], i + 4)
    ELSE IF StandsAt(s, i, <<"f", "a", "l", "s", "e">>)
    THEN json_ok([t |-> "bool", v |-> FALSE], i + 5)
    ELSE json_fail

\* json.loads(text): one value, and nothing but whitespace after it
json_loads(text) ==
    LET val == json_value(text, json_ws(text, 1))
    IN  IF ~val.ok THEN Raised("JSONDecodeError")
        ELSE IF json_ws(text, val.next) <= Len(text) THEN Raised("JSONDecodeError")
        ELSE Returned(val.value)

\* re.search(r"\{.*\}", out, flags=re.S): from the first { to the last },
\* None when no } stands after a {
search_braces(out) ==
    LET opens == {i \in 1..Len(out) : out[i] = "{"}
        closes == {j \in 1..Len(out) : out[j] = "}" /\ \E i \in opens : i < j}
    IN  IF closes = {} THEN None
        ELSE Some(SubSeq(out, Min(opens), Max(closes)))

\* bool(v) of a JSON value
json_truthy(val) ==
    CASE val.t = "str" -> val.v # <<>>
      [] val.t = "null" -> FALSE
      [] val.t = "bool" -> val.v
      [] val.t = "obj" -> DOMAIN val.v # {}

InOptionalKeys(k) == \E n \in 1..Len(OPTIONAL_KEYS) : OPTIONAL_KEYS[n] = k

\* {k: v for k, v in params.items() if k in OPTIONAL_KEYS and v}
allowed_nonempty(params) ==
    LET kept == {k \in DOMAIN params : InOptionalKeys(k) /\ json_truthy(params[k])}
    IN  [k \in kept |-> params[k]]

\* params = json.loads(match.group(0)) if match else {}
params_of(match) ==
    IF match = None THEN Returned([t |-> "obj", v |-> <<>>])
    ELSE json_loads(match[1])

\* route(text), from the decoded output of the model on
route(out) ==
    LET params == params_of(search_braces(out))
    IN  IF params.status = "raised" THEN params
        ELSE Returned(allowed_nonempty(params.value.v))

(***************************************************************************)
(* The language model writes its output piece by piece; route is applied   *)
(* to what it wrote.                                                       *)
(***************************************************************************)
MaxOut == 4

OutPieces ==
    { <<"{", "\"", "r", "o", "l", "e", "\"", ":", " ", "\"", "i", "n", "t",
        "e", "r", "n", "\"">>,
      <<",", " ", "\"", "s", "a", "l", "a", "r", "y", "\"", ":", " ", "\"",
        "9", "\"">>,
      <<",", " ", "\"", "t", "y", "p", "e", "\"", ":", " ", "\"", "\"">>,
      <<"}">>,
      <<"{">>,
      <<"S", "u", "r", "e", ":", " ">>,
      <<"\"", "c", "o", "m", "p", "a", "n", "y", "\"", ":", " ", "n", "u",
        "l", "l">>,
      <<" ", "{", "\"", "d", "a", "t", "e", "\"", ":", " ", "\"", "m", "a",
        "y", "\"", "}", " ">>,
      <<",">> }

ModelWrites ==
    /\ routed.outcome = NotRun
    /\ routed.pieces < MaxOut
    /\ \E p \in OutPieces :
          routed' = [routed EXCEPT !.out = @ \o p, !.pieces = @ + 1]
    /\ UNCHANGED <<parseVars, filterVars, queryVars, formatVars, harvestVars,
                 runVars, handled, member_join, events_reply, chat>>

Route ==
    /\ routed.outcome = NotRun
    /\ routed' = [routed EXCEPT !.outcome = route(routed.out)]
    /\ UNCHANGED <<parseVars, filterVars, queryVars, formatVars, harvestVars,
                 runVars, handled, member_join, events_reply, chat>>

NextRoute == ModelWrites \/ Route

SpecRoute == Init /\ [][NextRoute]_vars

(***************************************************************************)
(* C29.  For any text of the language model, route returns and does not    *)
(* raise; the mapping it returns has only recognized keys and only         *)
(* non-empty values.                                                       *)
(***************************************************************************)
RecognizedKeys ==
    { <<"r", "o", "l", "e">>,
      <<"t", "y", "p", "e">>,
      <<"d", "a", "t", "e">>,
      <<"c", "o", "m", "p", "a", "n", "y">>,
      <<"l", "o", "c", "a", "t", "i", "o", "n">> }

\* the value is one that Python counts as empty
EmptyValue(val) ==
    \/ val.t = "null"
    \/ val.t = "str" /\ Len(val.v) = 0
    \/ val.t = "obj" /\ DOMAIN val.v = {}
    \/ val.t = "bool" /\ ~val.v

C29_RouteReturnsCleanMapping ==
    routed.outcome # NotRun =>
        /\ routed.outcome.status = "returned"
        /\ DOMAIN routed.outcome.value \subseteq RecognizedKeys
        /\ \A k \in DOMAIN routed.outcome.value :
              ~EmptyValue(routed.outcome.value[k])

(***************************************************************************)
(* on_message of data-processing/bot.py.  Discord hands every message of   *)
(* the channels to on_message, those of the client itself included: a      *)
(* reply that was sent comes back as a message whose author is a bot.      *)
(***************************************************************************)
RECURSIVE dumps_members(_, _, _)
\* the "key": "value" lines of json.dumps(params, indent=2), one per key,
\* for a mapping of strings; the keys of the mapping are written in the
\* order of OPTIONAL_KEYS (the model outputs below keep at most one key)
dumps_members(params, n, first) ==
    IF n > Len(OPTIONAL_KEYS) THEN <<>>
    ELSE IF OPTIONAL_KEYS[n] \in DOMAIN params
    THEN (IF first THEN <<>> ELSE <<",">>) \o <<"\n", " ", " ", "\"">>
         \o OPTIONAL_KEYS[n] \o <<"\"", ":", " ", "\"">>
         \o params[OPTIONAL_KEYS[n]].v \o <<"\"">>
         \o dumps_members(params, n + 1, FALSE)
    ELSE dumps_members(params, n + 1, first)

\* json.dumps(params, indent=2)
json_dumps(params) ==
    IF DOMAIN params = {} THEN <<"{", "}">>
    ELSE <<"{">> \o dumps_members(params, 1, TRUE) \o <<"\n", "}">>

\* f"Parameters -> ```json\n{json.dumps(params, indent=2)}```"; the backquote
\* is written "U+0060"
parameters_reply(params) ==
    <<"P", "a", "r", "a", "m", "e", "t", "e", "r", "s", " ", "U+2192", " ",
      "U+0060", "U+0060", "U+0060", "j", "s", "o", "n", "\n">>
    \o json_dumps(params) \o <<"U+0060", "U+0060", "U+0060">>

\* variant: every author is taken for a user
author_is_user(msg) == FALSE

\* msg.author.bot
author_bot(msg) == msg.author.bot

\* msg.content.startswith("!")
is_command(content) == Len(content) >= 1 /\ content[1] = "!"

\* on_message(msg): what it hands to msg.channel.send, and how it ends;
\* out is the output of the language model, send_result what the channel
\* does with the reply
on_message(msg, out, send_result) ==
    IF author_bot(msg) THEN [status |-> "returned", sends |-> <<>>, delivered |-> <<>>]
    ELSE IF is_command(msg.content)
    THEN [status |-> "returned", sends |-> <<>>, delivered |-> <<>>]
    ELSE LET params == route(out)
         IN  IF params.status = "raised"
             THEN [status |-> "raised", sends |-> <<>>, delivered |-> <<>>]
             ELSE LET reply == parameters_reply(params.value)
                  IN  IF send_result = "ok"
                      THEN [status |-> "returned", sends |-> <<reply>>,
                            delivered |-> <<reply>>]
                      ELSE [status |-> "raised", sends |-> <<reply>>,
                            delivered |-> <<>>]

MaxWritten == 3

ChatContents ==
    { <<"p", "y", "t", "h", "o", "n", " ", "i", "n", "t", "e", "r", "n", "s",
        "h", "i", "p", "s">>,
      <<"!", "j", "o", "b", "s", " ", "p", "y", "t", "h", "o", "n">>,
      <<>> }

ChatOutputs ==
    { <<>>,
      <<"{", "\"", "r", "o", "l", "e", "\"", ":", " ", "\"", "i", "n", "t",
        "e", "r", "n", "\"", "}">>,
      <<"S", "u", "r", "e", ":", " ", "{", "\"", "s", "a", "l", "a", "r",
        "y", "\"", ":", " ", "\"", "9", "\"", ",", " ", "\"", "t", "y", "p",
        "e", "\"", ":", " ", "\"", "\"", "}">>,
      <<"{", ",", "}">> }

ClientAuthor == [bot |-> TRUE, name |-> "client"]

\* a user writes a message to the channel
UserWrites ==
    /\ chat.written < MaxWritten
    /\ \E c \in ChatContents :
          LET m == [author |-> [bot |-> FALSE, name |-> "user"], content |-> c]
          IN  chat' = [chat EXCEPT !.inbox = Append(@, m), !.written = @ + 1,
                                   !.users = @ + 1]
    /\ UNCHANGED <<parseVars, filterVars, queryVars, formatVars, harvestVars,
                 runVars, handled, member_join, events_reply, routed>>

\* another bot writes a message to the channel
PeerWrites ==
    /\ chat.written < MaxWritten
    /\ LET m == [author |-> [bot |-> TRUE, name |-> "peer"],
                 content |-> <<"h", "i">>]
       IN  chat' = [chat EXCEPT !.inbox = Append(@, m), !.written = @ + 1]
    /\ UNCHANGED <<parseVars, filterVars, queryVars, formatVars, harvestVars,
                 runVars, handled, member_join, events_reply, routed>>

\* on_message handles the oldest message not handled yet; a reply that the
\* channel took is a new message for on_message
OnMessage ==
    /\ chat.inbox # <<>>
    /\ \E out \in ChatOutputs, send_result \in {"ok", "HTTPException"} :
          LET msg == Head(chat.inbox)
              r == on_message(msg, out, send_result)
              back == [k \in 1..Len(r.delivered) |->
                          [author |-> ClientAuthor, content |-> r.delivered[k]]]
          IN  chat' = [chat EXCEPT
                          !.inbox = Tail(@) \o back,
                          !.replies = @ + Len(r.delivered),
                          !.last = [msg |-> msg, status |-> r.status,
                                    sends |-> r.sends]]
    /\ UNCHANGED <<parseVars, filterVars, queryVars, formatVars, harvestVars,
                 runVars, handled, member_join, events_reply, routed>>

NextChat == UserWrites \/ PeerWrites \/ OnMessage

\* the event loop of the client runs on_message for every message it gets
SpecChat == Init /\ [][NextChat]_vars /\ WF_vars(OnMessage)

(***************************************************************************)
(* C30.  on_message sends a reply only for a message whose author is no    *)
(* bot and whose content does not start with "!".  So no message of a bot, *)
(* the replies of on_message included, gets a reply; the replies are never *)
(* more than the messages users wrote; and the messages to handle run out. *)
(***************************************************************************)
Bang(content) == content # <<>> /\ Head(content) = "!"

C30_RepliesOnlyToUsers ==
    /\ [](chat.last # NotRun /\ chat.last.sends # <<>> =>
             ~chat.last.msg.author.bot /\ ~Bang(chat.last.msg.content))
    /\ [](chat.replies <= chat.users)
    /\ [][chat'.replies > chat.replies =>
             /\ chat.inbox # <<>>
             /\ ~Head(chat.inbox).author.bot
             /\ ~Bang(Head(chat.inbox).content)]_vars
    /\ <>[](chat.inbox = <<>>)

\* a reply was sent, came back to on_message and got no reply
C30_Witness ==
    /\ chat.replies >= 1
    /\ chat.last # NotRun
    /\ chat.last.msg.author = ClientAuthor
    /\ chat.last.sends = <<>>
    /\ chat.inbox = <<>>

====
